---- MODULE Spec2Model ----
(***************************************************************************)
(* The Linux ptrace debugger engine of DynaDbg (class Debugger): the       *)
(* command queue served by the single debugger thread, the event           *)
(* demultiplexer handle_exception, hardware and software breakpoints,      *)
(* watchpoints and stop-the-world, together with the traced threads and    *)
(* the kernel's ptrace interface they run against.                         *)
(***************************************************************************)
EXTENDS Integers, Sequences, FiniteSets, TLC

\* ---------------------------------------------------------------- bounds
\* number of requests client threads push over a run
MaxReqs == 3
\* number of threads the target ever has (thread 1 is the leader, pid_)
MaxThreads == 2
\* number of asynchronous signals raised in the target over a run
MaxSignals == 1
\* number of signals a session gives a configuration of its own
MaxConfigured == 1
\* largest hit_count a client passes to set_breakpoint
MaxHitCount == 2
\* largest value breakpoint_hit_counts is followed to
MaxHits == 3
\* software breakpoint table entries the model keeps (the table has 1000000)
SwSlots == 2
\* number of requests pushed over a run of the "table" session
MaxTableReqs == 4

\* ------------------------------------------------------ program constants
MAX_WATCHPOINTS == 1
MAX_BREAKPOINTS == 4
\* offset that marks a software breakpoint index in find_breakpoint_index
SW_INDEX_BASE == 1000
\* arch_defs.h
ARM_BREAKPOINT_EXECUTE == 0
ARM_BREAKPOINT_LOAD == 1
ARM_BREAKPOINT_STORE == 2
ARM_BREAKPOINT_RW == 3
ARM_BREAKPOINT_LEN_1 == 1
ARM_BREAKPOINT_LEN_2 == 3
ARM_BREAKPOINT_LEN_4 == 15
ARM_BREAKPOINT_LEN_8 == 255
X86_DR7_BREAK_ON_EXEC == 0
X86_DR7_BREAK_ON_WRITE == 1
X86_DR7_BREAK_ON_RW == 3
X86_DR7_LEN_1 == 0
X86_DR7_LEN_2 == 1
X86_DR7_LEN_8 == 2
X86_DR7_LEN_4 == 3
\* debugger_types.h, WatchpointType
WP_READ == 1
WP_WRITE == 2
WP_READWRITE == 3
\* trap instructions written by set_software_breakpoint_internal: INT3, and
\* BRK #0 = 0xD4200000, kept as its upper half-word 0xD420 (the lower one is
\* zero) to stay within the checker's integers
ARM64_BRK == 54304
X86_INT3 == 204

\* ------------------------------------------------------------ the target
Tids == 1..MaxThreads
BpSlots == 0..(MAX_BREAKPOINTS - 1)
WpSlots == 0..(MAX_WATCHPOINTS - 1)
SwIdx == 0..(SwSlots - 1)

\* The traced program: three 4-byte instructions in a loop; the one at 8
\* stores a word to data address 64.
CodeAddrs == {4, 8}
NextPc == (4 :> 8) @@ (8 :> 4)
StoreAt == {8}
DataAddr == CHOOSE a \in {64} : TRUE
AccessLen == CHOOSE n \in {4} : TRUE
OrigInsn(a) == a

\* encode_ctrl_reg of arch_defs.h; the fields do not overlap, so | is +
encode_ctrl_reg(mismatch, len, type, privilege, enabled) ==
  mismatch * 4194304 + len * 32 + type * 8 + privilege * 2 + enabled

CtrlEnabled(ctrl) == ctrl % 2 = 1
CtrlType(ctrl) == (ctrl \div 8) % 4
CtrlLen(ctrl) == (ctrl \div 32) % 256
\* ctrl | 1 and ctrl & ~1
CtrlOrEnable(ctrl) == IF ctrl % 2 = 1 THEN ctrl ELSE ctrl + 1

\* bytes covered by an ARM64 byte-address-select mask starting at addr
BasBytes(len) ==
  IF len = ARM_BREAKPOINT_LEN_1 THEN 1
  ELSE IF len = ARM_BREAKPOINT_LEN_2 THEN 2
  ELSE IF len = ARM_BREAKPOINT_LEN_4 THEN 4
  ELSE 8

\* bytes covered by an x86 DR7 LEN field
Dr7Bytes(len) ==
  IF len = X86_DR7_LEN_1 THEN 1
  ELSE IF len = X86_DR7_LEN_2 THEN 2
  ELSE IF len = X86_DR7_LEN_4 THEN 4
  ELSE 8

\* ------------------------------------------------------------------ state
VARIABLES
  arch,            \* the build: "arm64" or "x86_64"
  workload,        \* the kind of session the client runs (see Workloads)
  \* --- the target as the kernel sees it
  kst,             \* per thread: "absent", "running", "trapped" (in a
                   \* ptrace-stop whose wait status is unread), "stopped"
                   \* (in a ptrace-stop whose status has been read),
                   \* "zombie" (exited, its exit status unread)
  kev,             \* per thread: what the unread wait status reports,
                   \* [k |-> kind, arg |-> event message, signal or si_addr]
  traced,          \* the threads the debugger process is tracer of
  pc,              \* per thread: program counter
  sstep,           \* per thread: resumed with PTRACE_SINGLESTEP
  intr,            \* per thread: a PTRACE_INTERRUPT trap is pending
  rf,              \* per thread: x86 resume flag
  hw,              \* per thread: debug registers
  mem,             \* code memory: instruction word at each address
  sigs,            \* signals raised so far
  dlv,             \* per thread: the signals injected by a restart request
  sigq,            \* signals sent to the process and not yet taken
  \* --- Debugger members
  attached_threads_,
  thread_states_,
  threads_attached_,
  debug_loop_running_,
  debug_command_queue_,
  watchpoint_used, watchpoint_addresses, watchpoint_sizes, watchpoint_types,
  removing_mask_, active_handlers,
  breakpoint_used, breakpoint_addresses, breakpoint_hit_counts,
  breakpoint_target_counts,
  software_breakpoint_used, software_breakpoint_addresses,
  software_breakpoint_original_bytes,
  debug_state_, current_thread,
  signal_config_,
  user_suspend_pending_,
  \* --- the globals of the native API
  g_signal_config, \* the global signal-disposition map
  cfg_calls,       \* the set_signal_config_native and
                   \* remove_signal_config_native calls that have written
                   \* g_signal_config and not yet the debugger's map
  \* --- control
  dbg_pc,          \* position of the debugger thread in debug_message_loop
  cur,             \* the request process_command_queue has popped
  next_id,         \* requests pushed so far + 1
  done,            \* ids of the client requests marked completed
  destroyed,       \* ~Debugger: "no", "joining" or "done"
  \* --- observation
  ev,              \* what the last step of the debugger thread did
  awaiting,        \* threads stopped in break state, awaiting the client
  steps,           \* per thread: single-steps issued since its last hit
  drained,         \* per watchpoint slot: "none", or how the last remove
                   \* since the last set ended: "failed" or "removed"
  wp_pre,          \* the debug registers as they were before the last
                   \* set_watchpoint succeeded, valid while the debugger
                   \* thread has done nothing since
  bp_pre           \* per thread: the slot and the thread's debug registers
                   \* as they were when single_step began to step the thread
                   \* over a hardware breakpoint, valid until the thread's
                   \* next event is handled or a set or remove runs

kvars == <<kst, kev, traced, pc, sstep, intr, rf, hw, mem, sigs, dlv, sigq>>
evars == <<attached_threads_, thread_states_, threads_attached_,
           debug_loop_running_, debug_command_queue_,
           watchpoint_used, watchpoint_addresses, watchpoint_sizes,
           watchpoint_types, removing_mask_, active_handlers,
           breakpoint_used, breakpoint_addresses, breakpoint_hit_counts,
           breakpoint_target_counts, software_breakpoint_used,
           software_breakpoint_addresses, software_breakpoint_original_bytes,
           debug_state_, current_thread, signal_config_,
           user_suspend_pending_>>
cvars == <<dbg_pc, cur, next_id, done, destroyed>>
hvars == <<awaiting, steps, drained, wp_pre, bp_pre>>
gvars == <<g_signal_config, cfg_calls>>
vars == <<arch, workload, kvars, evars, gvars, cvars, ev, hvars>>

\* the thread-group leader
pid_ == CHOOSE t \in Tids : \A u \in Tids : t <= u

\* ------------------------------------------------------------ sessions
\* A session draws its requests from one menu (ClientMenu); signals are
\* raised and configured in the "sig" sessions, the debugger is destroyed in
\* the "life" sessions.
Workloads ==
  {"hw", "trace", "sw", "wp", "mix", "sig", "life", "table", "suspend",
   "fault", "config", "spawn", "exit"}
SignalsOn == workload \in {"sig", "suspend"}
\* the client configures signals; in the "config" sessions from two threads
\* at once, and it also removes configurations
ConfigOn == workload \in {"sig", "suspend", "config"}
ClientThreads == IF workload = "config" THEN 2 ELSE 1
\* the debugger is constructed without a pid (Debugger(), pid_ = 0) by
\* spawn_process_native, and the target is created by a SpawnProcess request
SpawnMode == workload = "spawn"
SuspendOn == workload = "suspend"
FaultsOn == workload = "fault"
DestroyOn == workload = "life"
\* the target creates a thread while it is debugged
CloneOn == workload \in {"hw", "wp"}
\* a thread of the target exits while it is debugged
ExitOn == workload = "exit"
\* the threads the target has when the debugger is constructed
InitialThreads ==
  IF workload \in {"trace", "sw", "fault", "exit"} THEN Tids
  ELSE IF SpawnMode THEN {}
  ELSE {pid_}

\* ------------------------------------------------------- thread_states_
\* ThreadState as default-constructed (debugger.h); regs keeps only pc
DefaultThreadState ==
  [single_step_mode |-> "None", current_breakpoint_index |-> -1,
   regs_pc |-> 0, is_attached |-> FALSE, is_stopped |-> FALSE,
   stopped_by_user |-> FALSE, original_wcr |-> 0,
   disabled_watchpoint_index |-> -1, pending_signal |-> 0]

\* std::map<pid_t, ThreadState>: find, operator[] and erase
TsHas(ts, t) == t \in DOMAIN ts
TsAt(ts, t) == IF t \in DOMAIN ts THEN ts[t] ELSE DefaultThreadState
TsPut(ts, t, r) == [x \in (DOMAIN ts) \cup {t} |-> IF x = t THEN r ELSE ts[x]]
TsErase(ts, S) == [x \in (DOMAIN ts) \ S |-> ts[x]]
TsTouch(ts, S) == [x \in (DOMAIN ts) \cup S |-> TsAt(ts, x)]

\* ------------------------------------------------ the state as one record
\* Handlers are computed as functions from World to World.
World ==
  [kst |-> kst, kev |-> kev, traced |-> traced, pc |-> pc, sstep |-> sstep, intr |-> intr,
   rf |-> rf, hw |-> hw, mem |-> mem, dlv |-> dlv, sigq |-> sigq,
   user_suspend_pending_ |-> user_suspend_pending_,
   attached_threads_ |-> attached_threads_, thread_states_ |-> thread_states_,
   debug_command_queue_ |-> debug_command_queue_, next_id |-> next_id,
   watchpoint_used |-> watchpoint_used,
   watchpoint_addresses |-> watchpoint_addresses,
   watchpoint_sizes |-> watchpoint_sizes,
   watchpoint_types |-> watchpoint_types,
   removing_mask_ |-> removing_mask_, active_handlers |-> active_handlers,
   breakpoint_used |-> breakpoint_used,
   breakpoint_addresses |-> breakpoint_addresses,
   breakpoint_hit_counts |-> breakpoint_hit_counts,
   breakpoint_target_counts |-> breakpoint_target_counts,
   software_breakpoint_used |-> software_breakpoint_used,
   software_breakpoint_addresses |-> software_breakpoint_addresses,
   software_breakpoint_original_bytes |-> software_breakpoint_original_bytes,
   debug_state_ |-> debug_state_, current_thread |-> current_thread,
   late |-> 0]

Install(w) ==
  /\ kst' = w.kst /\ kev' = w.kev /\ traced' = w.traced /\ pc' = w.pc /\ sstep' = w.sstep
  /\ intr' = w.intr /\ rf' = w.rf /\ hw' = w.hw /\ mem' = w.mem
  /\ dlv' = w.dlv /\ sigq' = w.sigq
  /\ attached_threads_' = w.attached_threads_
  /\ thread_states_' = w.thread_states_
  /\ debug_command_queue_' = w.debug_command_queue_
  /\ next_id' = w.next_id
  /\ watchpoint_used' = w.watchpoint_used
  /\ watchpoint_addresses' = w.watchpoint_addresses
  /\ watchpoint_sizes' = w.watchpoint_sizes
  /\ watchpoint_types' = w.watchpoint_types
  /\ removing_mask_' = w.removing_mask_
  /\ active_handlers' = w.active_handlers
  /\ breakpoint_used' = w.breakpoint_used
  /\ breakpoint_addresses' = w.breakpoint_addresses
  /\ breakpoint_hit_counts' = w.breakpoint_hit_counts
  /\ breakpoint_target_counts' = w.breakpoint_target_counts
  /\ software_breakpoint_used' = w.software_breakpoint_used
  /\ software_breakpoint_addresses' = w.software_breakpoint_addresses
  /\ software_breakpoint_original_bytes' = w.software_breakpoint_original_bytes
  /\ debug_state_' = w.debug_state_
  /\ current_thread' = w.current_thread

\* ------------------------------------------------------- ptrace requests
NoEvent == [k |-> "none", arg |-> 0]
Event(kind, arg) == [k |-> kind, arg |-> arg]

\* A request on a thread succeeds only while the thread is in a ptrace-stop
\* (otherwise ESRCH).
InStop(w, t) == t \in Tids /\ w.kst[t] \in {"trapped", "stopped"}

\* the data argument of PTRACE_CONT and PTRACE_SINGLESTEP: a signal number
\* other than 0 is injected into the thread as the request restarts it
Inject(w, t, data) ==
  IF InStop(w, t) /\ data # 0 THEN [w EXCEPT !.dlv[t] = Append(@, data)]
  ELSE w

PTRACE_CONT(w, t) ==
  IF InStop(w, t)
  THEN [w EXCEPT !.kst[t] = "running", !.kev[t] = NoEvent, !.sstep[t] = FALSE]
  ELSE w

PTRACE_SINGLESTEP(w, t) ==
  IF InStop(w, t)
  THEN [w EXCEPT !.kst[t] = "running", !.kev[t] = NoEvent, !.sstep[t] = TRUE]
  ELSE w

\* ----------------------------------------------------- stop_all_threads
\* get_thread_list: the tasks of /proc/<pid>/task that are not zombies
ThreadList(w) == {t \in Tids : w.kst[t] \notin {"absent", "zombie"}}

\* stop_all_threads, the pruning of the threads that are gone
PruneGone(w) ==
  LET gone == w.attached_threads_ \ ThreadList(w)
  IN [w EXCEPT !.attached_threads_ = @ \ gone,
               !.thread_states_ = TsErase(@, gone)]

\* stop_all_threads looks up thread_states_[tid] of every thread it considers
TouchCandidates(w, exclude) ==
  [w EXCEPT !.thread_states_ = TsTouch(@, w.attached_threads_ \ {exclude})]

\* the threads marked is_stopped pass through (already_stopped_out)
AlreadyStopped(w, exclude) ==
  {t \in w.attached_threads_ \ {exclude} : w.thread_states_[t].is_stopped}

\* every other attached thread gets PTRACE_INTERRUPT
ToInterrupt(w, exclude) ==
  {t \in w.attached_threads_ \ {exclude} : ~w.thread_states_[t].is_stopped}

\* only the threads whose stop was pending before the interrupt
ConfirmedUnread(w, toInt) == {t \in toInt : w.kst[t] = "trapped"}

\* the interrupted threads whose stop the waitpid loop reads before the
\* deadline: a running thread stops with PTRACE_EVENT_STOP, a thread whose
\* stop is still unread has that stop read here; a thread in a stop that was
\* already read reports nothing
Confirmed(w, toInt) == {t \in toInt : w.kst[t] \in {"running", "trapped"}}

\* PTRACE_INTERRUPT and the waitpid loop: a confirmed thread is marked
\* is_stopped; an interrupt sent to a thread that was not running stays
\* pending
InterruptAndWait(w, toInt, confirmed) ==
  [w EXCEPT
     !.thread_states_ =
        [t \in DOMAIN @ |->
           IF t \in confirmed THEN [@[t] EXCEPT !.is_stopped = TRUE]
           ELSE @[t]],
     !.kst = [t \in Tids |-> IF t \in confirmed THEN "stopped" ELSE @[t]],
     !.kev = [t \in Tids |-> IF t \in confirmed THEN NoEvent ELSE @[t]],
     !.intr = [t \in Tids |->
                 IF t \in toInt /\ w.kst[t] # "running" THEN TRUE ELSE @[t]]]

\* cancel_interrupt_for_non_stopped_threads: the threads left out whose stop
\* is pending are continued
cancel_interrupt_for_non_stopped_threads(w, stopped) ==
  LET rest == {t \in w.attached_threads_ \ stopped : w.kst[t] = "trapped"}
  IN [w EXCEPT
        !.kst = [t \in Tids |-> IF t \in rest THEN "running" ELSE @[t]],
        !.kev = [t \in Tids |-> IF t \in rest THEN NoEvent ELSE @[t]],
        !.sstep = [t \in Tids |-> IF t \in rest THEN FALSE ELSE @[t]]]

\* what stop_all_threads hands back: the state, the returned vector and
\* already_stopped_out
StopResult(w, stopped, already) ==
  [w |-> cancel_interrupt_for_non_stopped_threads(w, stopped),
   stopped |-> stopped, already |-> already]

\* The waitpid loop polls the interrupted threads in the order of the vector
\* and sleeps 10 ms after a poll that found nothing, before it reads the clock
\* again at the end of the pass. A thread is erased only by a poll after the
\* deadline: when the deadline falls between the poll of thread w.late and
\* the clock read that follows, the threads up to w.late stay in the vector
\* although nothing confirmed their stop, and the loop ends.
LeftAtDeadline(w, toInt, confirmed) == {t \in toInt \ confirmed : t <= w.late}

ConfirmStops(w, already, toInt, confirmed) ==
  StopResult(InterruptAndWait(w, toInt, confirmed),
             already \cup confirmed \cup LeftAtDeadline(w, toInt, confirmed),
             already)

WaitForStops(w, already, toInt) ==
  ConfirmStops(w, already, toInt, Confirmed(w, toInt))

StopCandidates(w, exclude) ==
  WaitForStops(w, AlreadyStopped(w, exclude), ToInterrupt(w, exclude))

\* stop_all_threads(exclude_thread, already_stopped_out)
StopAllThreads(w, exclude) ==
  StopCandidates(TouchCandidates(PruneGone(w), exclude), exclude)

\* resume_threads: PTRACE_CONT with the thread's pending signal; ESRCH
\* erases the thread from attached_threads_ and thread_states_
ResumeOk(w, S, ok) ==
  [w EXCEPT
     !.kst = [t \in Tids |-> IF t \in ok THEN "running" ELSE @[t]],
     !.kev = [t \in Tids |-> IF t \in ok THEN NoEvent ELSE @[t]],
     !.sstep = [t \in Tids |-> IF t \in ok THEN FALSE ELSE @[t]],
     !.dlv = [t \in Tids |->
                IF t \in ok /\ w.thread_states_[t].pending_signal # 0
                THEN Append(@[t], w.thread_states_[t].pending_signal)
                ELSE @[t]],
     !.attached_threads_ = @ \ (S \ ok),
     !.thread_states_ =
        TsErase([t \in DOMAIN @ |->
                   IF t \in ok
                   THEN [@[t] EXCEPT !.pending_signal = 0,
                                     !.is_stopped = FALSE]
                   ELSE @[t]], S \ ok)]

ResumeThreads(w, S) ==
  ResumeOk([w EXCEPT !.thread_states_ = TsTouch(@, S)], S,
           {t \in S : InStop(w, t)})

\* a resume that does not spare the threads found stopped
ResumeEvery(sa) == sa.stopped

\* the threads a set or remove resumes: those it stopped itself
ToResume(sa) == sa.stopped \ sa.already

\* ------------------------------------------------------ debug registers
\* Per thread: ARM64 keeps breakpoint (bvr, bcr) and watchpoint (wvr, wcr)
\* register pairs; x86_64 keeps DR0-DR3 (dr), DR7 (local enable bit, R/W and
\* LEN field per register) and DR6 (dr6: the registers that triggered).
NoHw ==
  [bvr |-> [i \in BpSlots |-> 0], bcr |-> [i \in BpSlots |-> 0],
   wvr |-> [i \in WpSlots |-> 0], wcr |-> [i \in WpSlots |-> 0],
   dr |-> [i \in BpSlots |-> 0], dr7l |-> [i \in BpSlots |-> FALSE],
   dr7rw |-> [i \in BpSlots |-> 0], dr7len |-> [i \in BpSlots |-> 0],
   dr6 |-> {}]

BcrExec == encode_ctrl_reg(0, ARM_BREAKPOINT_LEN_4, ARM_BREAKPOINT_EXECUTE, 0, 1)

\* size -> length encoding, type -> access encoding (apply_watchpoint_to_threads)
ArmLength(size) ==
  IF size <= 1 THEN ARM_BREAKPOINT_LEN_1
  ELSE IF size <= 2 THEN ARM_BREAKPOINT_LEN_2
  ELSE IF size <= 4 THEN ARM_BREAKPOINT_LEN_4
  ELSE ARM_BREAKPOINT_LEN_8

ArmBtype(type) ==
  IF type = WP_READ THEN ARM_BREAKPOINT_LOAD
  ELSE IF type = WP_WRITE THEN ARM_BREAKPOINT_STORE
  ELSE ARM_BREAKPOINT_RW

X86Len(size) ==
  IF size <= 1 THEN X86_DR7_LEN_1
  ELSE IF size <= 2 THEN X86_DR7_LEN_2
  ELSE IF size <= 4 THEN X86_DR7_LEN_4
  ELSE X86_DR7_LEN_8

X86Cond(type) ==
  IF type = WP_WRITE THEN X86_DR7_BREAK_ON_WRITE ELSE X86_DR7_BREAK_ON_RW

\* one thread's registers after apply_breakpoint_to_threads
ApplyBreakpointRegs(h, index, address) ==
  IF arch = "arm64"
  THEN [h EXCEPT
          !.bcr = [i \in BpSlots |->
                     IF i = index \/ h.bvr[i] # 0 THEN BcrExec ELSE h.bcr[i]],
          !.bvr[index] = address]
  ELSE [h EXCEPT !.dr[index] = address, !.dr7l[index] = TRUE,
                 !.dr7rw[index] = X86_DR7_BREAK_ON_EXEC,
                 !.dr7len[index] = X86_DR7_LEN_1]

\* one thread's registers after clear_breakpoint_from_threads
ClearBreakpointRegs(h, index) ==
  IF arch = "arm64"
  THEN [h EXCEPT
          !.bcr = [i \in BpSlots |->
                     IF i = index THEN 0
                     ELSE IF h.bvr[i] # 0 THEN BcrExec ELSE h.bcr[i]],
          !.bvr[index] = 0]
  ELSE [h EXCEPT !.dr[index] = 0, !.dr7l[index] = FALSE,
                 !.dr7rw[index] = 0, !.dr7len[index] = 0]

\* one thread's registers after apply_watchpoint_to_threads
ApplyWatchpointRegs(h, index, address, size, type) ==
  IF arch = "arm64"
  THEN [h EXCEPT
          !.wcr = [i \in WpSlots |->
                     IF i = index
                     THEN encode_ctrl_reg(0, ArmLength(size), ArmBtype(type), 2, 1)
                     ELSE IF h.wvr[i] # 0 THEN CtrlOrEnable(h.wcr[i])
                     ELSE h.wcr[i]],
          !.wvr[index] = address]
  ELSE [h EXCEPT !.dr[index] = address, !.dr7l[index] = TRUE,
                 !.dr7rw[index] = X86Cond(type),
                 !.dr7len[index] = X86Len(size)]

\* one thread's registers after clear_watchpoint_from_threads
ClearWatchpointRegs(h, index) ==
  IF arch = "arm64"
  THEN [h EXCEPT !.wcr[index] = 0, !.wvr[index] = 0]
  ELSE [h EXCEPT !.dr[index] = 0, !.dr7l[index] = FALSE,
                 !.dr7rw[index] = 0, !.dr7len[index] = 0]

\* the *_to_threads loops: a thread that is not in a ptrace-stop answers
\* ESRCH and is skipped
\* a ptrace debug-register request that fails with an error other than
\* ESRCH: the thread it fails for (0 for none) and, on x86_64, whether it is
\* the write of DR7 (after the address register is written) that fails
NoFault == [tid |-> 0, ctrl |-> FALSE]
Faults ==
  {NoFault} \cup
  (IF FaultsOn THEN [tid : Tids, ctrl : BOOLEAN] ELSE {})

\* apply_breakpoint_to_threads: the threads are taken in ascending order; a
\* thread that is gone (ESRCH) is skipped, any other failure returns false
\* at once and leaves what was written before
apply_breakpoint_to_threads(w, S, index, address, fault) ==
  LET live == {t \in S : InStop(w, t)}
      f == IF fault.tid \in live THEN fault.tid ELSE 0
  IN [w |-> [w EXCEPT !.hw = [t \in Tids |->
                IF t \in live /\ (f = 0 \/ t < f)
                THEN ApplyBreakpointRegs(w.hw[t], index, address)
                ELSE IF t = f /\ arch = "x86_64" /\ fault.ctrl
                THEN [w.hw[t] EXCEPT !.dr[index] = address]
                ELSE w.hw[t]]],
      success |-> f = 0]

clear_breakpoint_from_threads(w, S, index) ==
  [w EXCEPT !.hw = [t \in Tids |->
     IF t \in S /\ InStop(w, t)
     THEN ClearBreakpointRegs(w.hw[t], index) ELSE w.hw[t]]]

apply_watchpoint_to_threads(w, S, index, address, size, type) ==
  [w EXCEPT !.hw = [t \in Tids |->
     IF t \in S /\ InStop(w, t)
     THEN ApplyWatchpointRegs(w.hw[t], index, address, size, type)
     ELSE w.hw[t]]]

clear_watchpoint_from_threads(w, S, index) ==
  [w EXCEPT !.hw = [t \in Tids |->
     IF t \in S /\ InStop(w, t)
     THEN ClearWatchpointRegs(w.hw[t], index) ELSE w.hw[t]]]

\* ------------------------------------------- what the hardware does
\* slots of thread registers h that match an instruction fetch at a
ExecSlots(h, a) ==
  IF arch = "arm64"
  THEN {i \in BpSlots : CtrlEnabled(h.bcr[i]) /\ h.bvr[i] = a}
  ELSE {i \in BpSlots :
          h.dr7l[i] /\ h.dr7rw[i] = X86_DR7_BREAK_ON_EXEC /\ h.dr[i] = a}

Overlap(a, n, b, m) == a < b + m /\ b < a + n

\* slots of h that match a store of n bytes at a
StoreSlots(h, a, n) ==
  IF arch = "arm64"
  THEN {i \in WpSlots :
          /\ CtrlEnabled(h.wcr[i])
          /\ CtrlType(h.wcr[i]) \in {ARM_BREAKPOINT_STORE, ARM_BREAKPOINT_RW}
          /\ Overlap(h.wvr[i], BasBytes(CtrlLen(h.wcr[i])), a, n)}
  ELSE {i \in BpSlots :
          /\ h.dr7l[i]
          /\ h.dr7rw[i] \in {X86_DR7_BREAK_ON_WRITE, X86_DR7_BREAK_ON_RW}
          /\ Overlap(h.dr[i], Dr7Bytes(h.dr7len[i]), a, n)}

TrapInsn == IF arch = "arm64" THEN ARM64_BRK ELSE X86_INT3

\* --------------------------------------------------- breakpoint commands

Min(S) == CHOOSE x \in S : \A y \in S : x <= y

\* a handler's outcome: the state it leaves and the int it returns
R(w, res) == [w |-> w, result |-> res]

find_free_breakpoint(w) ==
  LET free == {i \in BpSlots : ~w.breakpoint_used[i]}
  IN IF free = {} THEN -1 ELSE Min(free)

FreeSoftwareIndex(w) ==
  LET free == {i \in SwIdx : ~w.software_breakpoint_used[i]}
  IN IF free = {} THEN -1 ELSE Min(free)

find_breakpoint_index(w, address) ==
  LET hwm == {i \in BpSlots :
                w.breakpoint_used[i] /\ w.breakpoint_addresses[i] = address}
      swm == {i \in SwIdx :
                /\ w.software_breakpoint_used[i]
                /\ \/ w.software_breakpoint_addresses[i] = address
                   \/ /\ arch = "x86_64"
                      /\ address > 0
                      /\ w.software_breakpoint_addresses[i] = address - 1}
  IN IF hwm # {} THEN Min(hwm)
     ELSE IF swm # {} THEN Min(swm) + SW_INDEX_BASE
     ELSE -1

\* set_hardware_breakpoint_internal once the threads are stopped
SetHardwareApplied(address, hit_count, index, sa, ap) ==
  IF ap.success
  THEN R([ResumeThreads(ap.w, ToResume(sa))
            EXCEPT !.breakpoint_used[index] = TRUE,
                   !.breakpoint_addresses[index] = address,
                   !.breakpoint_target_counts[index] = hit_count,
                   !.breakpoint_hit_counts[index] = 0], 0)
  ELSE R(ResumeThreads(ap.w, ToResume(sa)), -1)

SetHardwareStopped(w, address, hit_count, index, sa, fault) ==
  IF sa.stopped = {} THEN R(sa.w, -1)
  ELSE SetHardwareApplied(address, hit_count, index, sa,
         apply_breakpoint_to_threads(sa.w, sa.stopped, index, address,
                                     fault))

SetHardwareAt(w, address, hit_count, index, fault) ==
  IF index = -1 THEN R(w, -1)
  ELSE SetHardwareStopped(w, address, hit_count, index,
                          StopAllThreads(w, 0), fault)

set_hardware_breakpoint_internal(w, address, hit_count, fault) ==
  SetHardwareAt(w, address, hit_count, find_free_breakpoint(w), fault)

\* set_software_breakpoint_internal once the threads are stopped.
\* PTRACE_PEEKDATA / PTRACE_POKEDATA go through pid_, which must be in a
\* ptrace-stop
SetSoftwareStopped(w, address, index, sa) ==
  IF sa.stopped = {} THEN R(sa.w, -1)
  ELSE IF ~InStop(sa.w, pid_) \/ address \notin CodeAddrs
  THEN R(ResumeThreads(sa.w, ToResume(sa)), -1)
  ELSE R([ResumeThreads([sa.w EXCEPT !.mem[address] = TrapInsn],
                        ToResume(sa))
            EXCEPT !.software_breakpoint_used[index] = TRUE,
                   !.software_breakpoint_addresses[index] = address,
                   !.software_breakpoint_original_bytes[index] =
                      sa.w.mem[address]], 0)

SetSoftwareAt(w, address, index) ==
  IF index = -1 THEN R(w, -1)
  ELSE SetSoftwareStopped(w, address, index, StopAllThreads(w, 0))

set_software_breakpoint_internal(w, address) ==
  SetSoftwareAt(w, address, FreeSoftwareIndex(w))

\* the thread states that remember software breakpoint index forget it
ForgetSoftware(ts, index) ==
  [t \in DOMAIN ts |->
     IF ts[t].disabled_watchpoint_index = index + SW_INDEX_BASE
     THEN [ts[t] EXCEPT !.disabled_watchpoint_index = -1]
     ELSE ts[t]]

\* remove_software_breakpoint_internal once the threads are stopped
RemoveSoftwareStopped(w, address, index, sa) ==
  IF sa.stopped = {} THEN R(sa.w, -1)
  ELSE IF ~InStop(sa.w, pid_) \/ address \notin CodeAddrs
  THEN R(ResumeThreads(sa.w, ToResume(sa)), -1)
  ELSE R([ResumeThreads(
            [sa.w EXCEPT !.mem[address] =
                            w.software_breakpoint_original_bytes[index]],
            ToResume(sa))
            EXCEPT !.thread_states_ = ForgetSoftware(@, index),
                   !.software_breakpoint_used[index] = FALSE,
                   !.software_breakpoint_addresses[index] = 0,
                   !.software_breakpoint_original_bytes[index] = 0], 0)

RemoveSoftwareAt(w, address, index) ==
  IF index = -1 THEN R(w, -1)
  ELSE RemoveSoftwareStopped(w, address, index, StopAllThreads(w, 0))

\* a lookup that also takes the address one past the breakpoint on x86_64
FindSoftwareNear(w, address) ==
  LET m == {i \in SwIdx :
              /\ w.software_breakpoint_used[i]
              /\ \/ w.software_breakpoint_addresses[i] = address
                 \/ /\ arch = "x86_64"
                    /\ w.software_breakpoint_addresses[i] = address - 1}
  IN IF m = {} THEN -1 ELSE Min(m)

FindSoftwareIndex(w, address) ==
  LET m == {i \in SwIdx : /\ w.software_breakpoint_used[i]
                          /\ w.software_breakpoint_addresses[i] = address}
  IN IF m = {} THEN -1 ELSE Min(m)

remove_software_breakpoint_internal(w, address) ==
  RemoveSoftwareAt(w, address, FindSoftwareIndex(w, address))

\* remove_breakpoint_internal, hardware kind, once the threads are stopped
RemoveHardwareStopped(index, sa) ==
  IF sa.stopped = {} THEN R(sa.w, -1)
  ELSE R([ResumeThreads(
            clear_breakpoint_from_threads(sa.w, sa.stopped, index),
            ToResume(sa))
            EXCEPT !.breakpoint_used[index] = FALSE,
                   !.breakpoint_addresses[index] = 0,
                   !.breakpoint_target_counts[index] = 0,
                   !.breakpoint_hit_counts[index] = 0], 0)

RemoveBreakpointAt(w, address, index) ==
  IF index = -1 THEN R(w, -1)
  ELSE IF index >= SW_INDEX_BASE
  THEN remove_software_breakpoint_internal(w, address)
  ELSE RemoveHardwareStopped(index, StopAllThreads(w, 0))

remove_breakpoint_internal(w, address) ==
  RemoveBreakpointAt(w, address, find_breakpoint_index(w, address))

\* --------------------------------------------------- watchpoint commands
\* the lowest slot in use, or -1
FirstUsedWatchpoint(w) ==
  LET used == {i \in WpSlots : w.watchpoint_used[i]}
  IN IF used = {} THEN -1 ELSE Min(used)

find_free_watchpoint(w) ==
  LET free == {i \in WpSlots : ~w.watchpoint_used[i]}
  IN IF free = {} THEN -1 ELSE Min(free)

find_watchpoint_index(w, address) ==
  LET m == {i \in WpSlots :
              w.watchpoint_used[i] /\ w.watchpoint_addresses[i] = address}
  IN IF m = {} THEN -1 ELSE Min(m)

\* set_watchpoint_internal once the threads are stopped
SetWatchpointStopped(address, size, type, index, sa) ==
  IF sa.stopped = {} THEN R(sa.w, -1)
  ELSE R([ResumeThreads(
            apply_watchpoint_to_threads(sa.w, sa.stopped, index, address,
                                        size, type),
            ToResume(sa))
            EXCEPT !.watchpoint_used[index] = TRUE,
                   !.watchpoint_addresses[index] = address,
                   !.watchpoint_sizes[index] = size,
                   !.watchpoint_types[index] = type], 0)

SetWatchpointAt(w, address, size, type, index) ==
  IF index = -1 THEN R(w, -1)
  ELSE SetWatchpointStopped(address, size, type, index, StopAllThreads(w, 0))

set_watchpoint_internal(w, address, size, type) ==
  SetWatchpointAt(w, address, size, type, find_free_watchpoint(w))

\* remove_watchpoint_internal once removing is set and the threads are
\* stopped.  removing_mask_ bit i mirrors watchpoint_sync_[i].removing.  The
\* wait for active_handlers to drain runs on the debugger thread, the only
\* thread that decrements the counter, so the counter is the same after the
\* wait as before it.
RemoveWatchpointStopped(index, sa) ==
  IF sa.stopped = {}
  THEN R([sa.w EXCEPT !.removing_mask_ = @ \ {index}], -1)
  ELSE R([ResumeThreads(
            clear_watchpoint_from_threads(sa.w, sa.stopped, index),
            ToResume(sa))
            EXCEPT !.removing_mask_ = @ \ {index},
                   !.watchpoint_used[index] = FALSE,
                   !.watchpoint_addresses[index] = 0,
                   !.watchpoint_sizes[index] = 0], 0)

RemoveWatchpointAt(w, index) ==
  IF index = -1 THEN R(w, -1)
  ELSE RemoveWatchpointStopped(
         index,
         StopAllThreads([w EXCEPT !.removing_mask_ = @ \cup {index}], 0))

remove_watchpoint_internal(w, address) ==
  RemoveWatchpointAt(w, find_watchpoint_index(w, address))

\* the loop over the slots in reapply_all_watchpoints_internal, from slot i
RECURSIVE ReapplySlots(_, _, _)
ReapplySlots(w, S, i) ==
  IF i \notin WpSlots THEN w
  ELSE IF i \notin w.removing_mask_ /\ w.watchpoint_used[i]
  THEN ReapplySlots(
         apply_watchpoint_to_threads(w, S, i, w.watchpoint_addresses[i],
                                     w.watchpoint_sizes[i],
                                     w.watchpoint_types[i]),
         S, i + 1)
  ELSE ReapplySlots(w, S, i + 1)

\* is_stopped is cleared for the threads that are about to be resumed
ClearStopped(w, S) ==
  [w EXCEPT !.thread_states_ =
     [t \in DOMAIN @ |->
        IF t \in S THEN [@[t] EXCEPT !.is_stopped = FALSE] ELSE @[t]]]

\* reapply_all_watchpoints_internal once the threads are stopped; stopped is
\* the returned vector with already_stopped_thread pushed back
ReapplyStopped(sa, stopped) ==
  IF stopped = {} THEN R(sa.w, -1)
  ELSE R(ResumeThreads(
           ClearStopped(ReapplySlots(sa.w, stopped, 0), stopped \ sa.already),
           stopped \ sa.already), 0)

ReapplyWith(sa, already_stopped_thread) ==
  ReapplyStopped(sa, IF already_stopped_thread # 0
                     THEN sa.stopped \cup {already_stopped_thread}
                     ELSE sa.stopped)

reapply_all_watchpoints_internal(w, already_stopped_thread) ==
  ReapplyWith(StopAllThreads(w, already_stopped_thread),
              already_stopped_thread)

\* ------------------------------------- continue, single step, read memory
SetTs(w, t, r) == [w EXCEPT !.thread_states_ = TsPut(@, t, r)]

AnyStopped(w) ==
  \E t \in DOMAIN w.thread_states_ : w.thread_states_[t].is_stopped

\* one thread's registers with breakpoint slot index switched off: ARM64
\* writes ctrl = 0, x86_64 clears the local enable bit of DR7
DisableBreakpointRegs(h, index) ==
  IF arch = "arm64" THEN [h EXCEPT !.bcr[index] = 0]
  ELSE [h EXCEPT !.dr7l[index] = FALSE]

continue_execution_internal(w, thread_id) ==
  LET st == TsAt(w.thread_states_, thread_id)
      dwi == st.disabled_watchpoint_index
      i == dwi - SW_INDEX_BASE
      restore == /\ i \in SwIdx
                 /\ w.software_breakpoint_used[i]
                 /\ w.software_breakpoint_addresses[i] = st.regs_pc
                 /\ st.regs_pc \in CodeAddrs
                 /\ InStop(w, pid_)
      wr == IF restore
            THEN [w EXCEPT !.mem[st.regs_pc] =
                             w.software_breakpoint_original_bytes[i]]
            ELSE w
      ws == [SetTs(wr, thread_id,
                   [st EXCEPT !.single_step_mode = "SoftwareBreakpointContinue",
                              !.is_stopped = FALSE,
                              !.stopped_by_user = FALSE,
                              !.pending_signal = 0])
               EXCEPT !.debug_state_ = "SingleStepping"]
      wp == SetTs(w, thread_id, [st EXCEPT !.pending_signal = 0])
      wc == SetTs(PTRACE_CONT(Inject(w, thread_id, st.pending_signal),
                              thread_id), thread_id,
                  [st EXCEPT !.pending_signal = 0, !.is_stopped = FALSE,
                             !.stopped_by_user = FALSE])
  IN IF ~TsHas(w.thread_states_, thread_id)
     THEN R(w, IF w.debug_state_ = "Running" THEN 0 ELSE -1)
     ELSE IF ~st.is_stopped THEN R(w, -1)
     ELSE IF thread_id \notin w.attached_threads_ THEN R(w, -1)
     ELSE IF dwi >= SW_INDEX_BASE
     THEN IF InStop(ws, thread_id)
          THEN R(PTRACE_SINGLESTEP(Inject(ws, thread_id, st.pending_signal),
                                   thread_id), 0)
          ELSE R(ws, -1)
     ELSE IF ~InStop(w, thread_id) THEN R(wp, -1)
     ELSE IF w.current_thread = thread_id /\ ~AnyStopped(wc)
     THEN R([wc EXCEPT !.debug_state_ = "Running", !.current_thread = 0], 0)
     ELSE R(wc, 0)

single_step_internal(w, thread_id) ==
  LET st == TsAt(w.thread_states_, thread_id)
      current_pc == IF InStop(w, thread_id) THEN w.pc[thread_id] ELSE 0
      m == {i \in SwIdx : /\ w.software_breakpoint_used[i]
                          /\ w.software_breakpoint_addresses[i] = current_pc}
      swhit == current_pc # 0 /\ m # {} /\ InStop(w, pid_)
                 /\ current_pc \in CodeAddrs
      w1 == IF swhit
            THEN [w EXCEPT !.mem[current_pc] =
                             w.software_breakpoint_original_bytes[Min(m)]]
            ELSE w
      bp_index == st.current_breakpoint_index
      w2 == IF bp_index \in BpSlots /\ InStop(w, thread_id)
            THEN [w1 EXCEPT !.hw[thread_id] =
                              DisableBreakpointRegs(@, bp_index)]
            ELSE w1
      w3 == IF w.current_thread = thread_id
            THEN [w2 EXCEPT !.debug_state_ = "SingleStepping"]
            ELSE w2
      st1 == [st EXCEPT
                !.disabled_watchpoint_index =
                   IF swhit THEN Min(m) + SW_INDEX_BASE ELSE @,
                !.single_step_mode = IF @ = "None" THEN "Breakpoint" ELSE @,
                !.is_stopped = FALSE,
                !.pending_signal = 0]
      w4 == SetTs(w3, thread_id, st1)
  IN IF ~TsHas(w.thread_states_, thread_id) THEN R(w, -1)
     ELSE IF thread_id \notin w.attached_threads_ THEN R(w, -1)
     ELSE IF ~st.is_stopped THEN R(w, -1)
     ELSE IF InStop(w4, thread_id)
     THEN R(PTRACE_SINGLESTEP(Inject(w4, thread_id, st.pending_signal),
                              thread_id), 0)
     ELSE R(w4, -1)

\* find_stopped_thread: the first attached thread /proc shows in state T or t
find_stopped_thread(w) ==
  LET s == {t \in w.attached_threads_ : InStop(w, t)}
  IN IF s = {} THEN 0 ELSE Min(s)

\* read_memory_internal followed by process_read_memory_command: 0 when a
\* byte was read, -1 otherwise.  A peek succeeds when the reading thread is
\* in a ptrace-stop.
ReadStopped(sa) ==
  IF sa.stopped = {} THEN R(sa.w, -1)
  ELSE R(ResumeThreads(sa.w, sa.stopped),
         IF InStop(sa.w, Min(sa.stopped)) THEN 0 ELSE -1)

read_memory_internal(w) ==
  IF find_stopped_thread(w) # 0 THEN R(w, 0)
  ELSE ReadStopped(StopAllThreads(w, 0))

\* -------------------------------------------------------- event handlers
\* a request of the command queue; the engine's own requests carry id 0
Req(id, cmd, address, size, type, hit_count, sw, thread_id) ==
  [id |-> id, cmd |-> cmd, address |-> address, size |-> size, type |-> type,
   hit_count |-> hit_count, sw |-> sw, thread_id |-> thread_id]

NoReq == Req(0, "None", 0, 0, 0, 0, FALSE, 0)

enqueue_command(w, r) ==
  [w EXCEPT !.debug_command_queue_ = Append(@, r)]

\* what a handler did: the state it leaves, the exception_type and pc of the
\* on_exception call it made ("none" when it made none) and the way it
\* disposed of the thread
H(w, type, npc, act) == [w |-> w, type |-> type, npc |-> npc, act |-> act]

\* DR7 as the 32-bit value PTRACE_PEEKUSER returns
Dr7Value(h) ==
  LET F[i \in -1..(MAX_BREAKPOINTS - 1)] ==
        IF i = -1 THEN 0
        ELSE F[i - 1]
             + (IF h.dr7l[i] THEN 2 ^ (2 * i) ELSE 0)
             + (h.dr7rw[i] + 4 * h.dr7len[i]) * 2 ^ (16 + 4 * i)
  IN F[MAX_BREAKPOINTS - 1]

handle_watchpoint_hit(w, thread, index) ==
  LET st == TsAt(w.thread_states_, thread)
      h == w.hw[thread]
      st1 == [st EXCEPT
                !.original_wcr = IF arch = "arm64" THEN h.wcr[index]
                                 ELSE Dr7Value(h),
                !.disabled_watchpoint_index = index,
                !.single_step_mode = "Watchpoint",
                !.current_breakpoint_index = -1,
                !.is_stopped = FALSE]
      h1 == IF arch = "arm64" THEN [h EXCEPT !.wcr[index] = 0]
            ELSE [h EXCEPT !.dr7l[index] = FALSE]
      w1 == [SetTs(w, thread, st1) EXCEPT
               !.active_handlers[index] = @ + 1,
               !.hw[thread] = h1]
  IN IF index \in w.removing_mask_ THEN PTRACE_CONT(w, thread)
     ELSE PTRACE_SINGLESTEP(w1, thread)

complete_watchpoint_single_step(w, thread) ==
  LET st == TsAt(w.thread_states_, thread)
      wp_index == st.disabled_watchpoint_index
      w1 == IF wp_index \in WpSlots
            THEN [w EXCEPT !.active_handlers[wp_index] = @ - 1]
            ELSE w
      w2 == SetTs(w1, thread,
                  [st EXCEPT !.single_step_mode = "None",
                             !.original_wcr = 0,
                             !.disabled_watchpoint_index = -1,
                             !.is_stopped = FALSE])
  IN enqueue_command(w2, Req(0, "ReapplyWatchpoints", 0, 0, 0, 0, FALSE, thread))

\* the software breakpoint a thread state remembers is written back
ReinsertSoftware(w, st) ==
  LET i == st.disabled_watchpoint_index - SW_INDEX_BASE
  IN IF /\ st.disabled_watchpoint_index >= SW_INDEX_BASE
        /\ i \in SwIdx
        /\ w.software_breakpoint_used[i]
        /\ w.software_breakpoint_addresses[i] \in CodeAddrs
        /\ InStop(w, pid_)
     THEN [w EXCEPT !.mem[w.software_breakpoint_addresses[i]] = TrapInsn]
     ELSE w

ClearDwiIfSoftware(st) ==
  IF st.disabled_watchpoint_index >= SW_INDEX_BASE
  THEN [st EXCEPT !.disabled_watchpoint_index = -1]
  ELSE st

\* continue_breakpoint_single_step, the branch for a thread state without a
\* hardware breakpoint index
StepDoneNoIndex(w, thread) ==
  LET st == TsAt(w.thread_states_, thread)
      w1 == ReinsertSoftware(w, st)
      st1 == [ClearDwiIfSoftware(st) EXCEPT
                !.single_step_mode = "None",
                !.current_breakpoint_index = -1]
  IN IF st.single_step_mode = "SoftwareBreakpointContinue"
     THEN H(PTRACE_CONT(
              [SetTs(w1, thread, [st1 EXCEPT !.is_stopped = FALSE])
                 EXCEPT !.debug_state_ = "Running"], thread),
            "singlestep", w.pc[thread], "resumed")
     ELSE H([SetTs(w1, thread, [st1 EXCEPT !.is_stopped = TRUE])
               EXCEPT !.debug_state_ = "BreakpointHit"],
            "singlestep", w.pc[thread], "stopped")

\* one thread's registers after the trace-complete branch
TraceClearRegs(h, index) ==
  IF arch = "arm64" THEN [h EXCEPT !.bcr[index] = 0, !.bvr[index] = 0]
  ELSE [h EXCEPT !.dr7l[index] = FALSE, !.dr[index] = 0]

\* one thread's registers after the wait-mode branch re-enables the slot
RearmRegs(h, index, address) ==
  IF arch = "arm64"
  THEN [h EXCEPT !.bvr[index] = address, !.bcr[index] = BcrExec]
  ELSE [h EXCEPT !.dr7l[index] = TRUE,
                 !.dr7rw[index] = X86_DR7_BREAK_ON_EXEC,
                 !.dr7len[index] = X86_DR7_LEN_1]

continue_breakpoint_single_step(w, thread) ==
  LET st == TsAt(w.thread_states_, thread)
      bp_index == st.current_breakpoint_index
      target_count == w.breakpoint_target_counts[bp_index]
      w0 == [w EXCEPT !.breakpoint_hit_counts[bp_index] = @ + 1]
      current_hit_count == w0.breakpoint_hit_counts[bp_index]
      \* trace complete
      wd == PTRACE_CONT(
              [SetTs(w0, thread, [st EXCEPT !.single_step_mode = "None",
                                            !.is_stopped = FALSE])
                 EXCEPT !.hw[thread] = TraceClearRegs(@, bp_index),
                        !.breakpoint_used[bp_index] = FALSE,
                        !.breakpoint_addresses[bp_index] = 0,
                        !.breakpoint_hit_counts[bp_index] = 0,
                        !.breakpoint_target_counts[bp_index] = 0,
                        !.debug_state_ = "Running",
                        !.current_thread = 0], thread)
      \* trace goes on
      wt == PTRACE_SINGLESTEP([w0 EXCEPT !.debug_state_ = "SingleStepping"],
                              thread)
      \* wait mode
      wr == [w0 EXCEPT !.hw[thread] =
               RearmRegs(@, bp_index, w0.breakpoint_addresses[bp_index])]
      ww == [SetTs(ReinsertSoftware(wr, st), thread,
                   [ClearDwiIfSoftware(st) EXCEPT
                      !.single_step_mode = "None", !.is_stopped = TRUE])
               EXCEPT !.debug_state_ = "BreakpointHit"]
  IN IF bp_index \notin BpSlots THEN StepDoneNoIndex(w, thread)
     ELSE IF target_count > 0 /\ current_hit_count >= target_count
     THEN H(wd, "singlestep", w.pc[thread], "trace_done")
     ELSE IF target_count > 0 /\ current_hit_count < target_count
     THEN H(wt, "singlestep", w.pc[thread], "trace_step")
     ELSE H(ww, "singlestep", w.pc[thread], "stopped")

handle_single_step(w, thread) ==
  LET mode == TsAt(w.thread_states_, thread).single_step_mode
  IN IF mode = "Watchpoint"
     THEN H(complete_watchpoint_single_step(w, thread), "singlestep",
            w.pc[thread], "wp_done")
     ELSE IF mode \in {"Breakpoint", "SoftwareBreakpointContinue"}
     THEN continue_breakpoint_single_step(w, thread)
     ELSE H(w, "singlestep", w.pc[thread], "left")

handle_breakpoint_hit(w, thread, breakpoint_index) ==
  LET is_software_bp == breakpoint_index >= SW_INDEX_BASE
      target_count == IF is_software_bp THEN 0
                      ELSE w.breakpoint_target_counts[breakpoint_index]
      current_hit_count == IF is_software_bp THEN 0
                           ELSE w.breakpoint_hit_counts[breakpoint_index]
      st1 == [DefaultThreadState EXCEPT
                !.single_step_mode = "Breakpoint",
                !.current_breakpoint_index =
                   IF is_software_bp THEN -1 ELSE breakpoint_index,
                !.regs_pc = w.pc[thread],
                !.is_attached = TRUE,
                !.is_stopped = TRUE,
                !.disabled_watchpoint_index =
                   IF is_software_bp THEN breakpoint_index ELSE -1]
      w1 == SetTs(w, thread, st1)
      wt == PTRACE_SINGLESTEP(
              [SetTs(w, thread, [st1 EXCEPT !.is_stopped = FALSE]) EXCEPT
                 !.hw[thread] = DisableBreakpointRegs(@, breakpoint_index),
                 !.debug_state_ = "SingleStepping"], thread)
  IN IF is_software_bp THEN H(w1, "breakpoint", w.pc[thread], "stopped")
     ELSE IF target_count > 0 /\ current_hit_count < target_count
     THEN H(wt, "breakpoint", w.pc[thread], "trace_step")
     ELSE H(w1, "breakpoint", w.pc[thread], "stopped")

handle_software_breakpoint_continue(w, thread, breakpoint_index) ==
  LET actual_index == breakpoint_index - SW_INDEX_BASE
      bp_addr == w.software_breakpoint_addresses[actual_index]
      st == TsAt(w.thread_states_, thread)
      w1 == [SetTs(w, thread,
                   [st EXCEPT
                      !.single_step_mode = "SoftwareBreakpointContinue",
                      !.disabled_watchpoint_index = breakpoint_index,
                      !.is_stopped = FALSE])
               EXCEPT !.mem[bp_addr] =
                         w.software_breakpoint_original_bytes[actual_index]]
  IN IF actual_index \notin SwIdx
        \/ ~w.software_breakpoint_used[actual_index]
        \/ bp_addr \notin CodeAddrs
     THEN H(w, "breakpoint", w.pc[thread], "left")
     ELSE H(PTRACE_SINGLESTEP(w1, thread), "breakpoint", w.pc[thread],
            "step_over")

Align8(x) == x - (x % 8)

\* the watchpoint slot handle_exception attributes a SIGTRAP to, or -1:
\* x86_64 looks at DR6, ARM64 at si_addr
DetectWatchpoint(w, pid, si_addr) ==
  LET x == {i \in WpSlots : i \in w.hw[pid].dr6 /\ w.watchpoint_used[i]}
      m1 == {i \in WpSlots :
               /\ w.watchpoint_used[i]
               /\ si_addr >= w.watchpoint_addresses[i]
               /\ si_addr < w.watchpoint_addresses[i] + w.watchpoint_sizes[i]}
      m2 == {i \in WpSlots :
               /\ w.watchpoint_used[i]
               /\ Align8(si_addr) = Align8(w.watchpoint_addresses[i])}
  IN IF arch = "x86_64" THEN (IF x = {} THEN -1 ELSE Min(x))
     ELSE IF si_addr = 0 THEN -1
     ELSE IF m1 # {} THEN Min(m1)
     ELSE IF m2 # {} THEN Min(m2)
     ELSE -1

\* handle_exception, case SIGTRAP, for a thread not in a single-step mode
HandleTrap(w, pid, si_addr, should_break) ==
  LET wp_index == DetectWatchpoint(w, pid, si_addr)
      st == TsAt(w.thread_states_, pid)
      \* watchpoint
      ww == [SetTs(w, pid, [st EXCEPT !.regs_pc = w.pc[pid],
                                      !.current_breakpoint_index = -1,
                                      !.is_stopped = TRUE])
               EXCEPT !.debug_state_ = "WatchpointHit",
                      !.current_thread = pid,
                      !.hw[pid].dr6 = IF arch = "x86_64" THEN {} ELSE @]
      \* breakpoint
      bp_index == find_breakpoint_index(w, w.pc[pid])
      is_software_bp == bp_index >= SW_INDEX_BASE
      actual_index == IF is_software_bp THEN bp_index - SW_INDEX_BASE
                      ELSE bp_index
      npc == IF arch = "x86_64" /\ is_software_bp
             THEN w.software_breakpoint_addresses[actual_index]
             ELSE w.pc[pid]
      w1 == [w EXCEPT
               !.pc[pid] = npc,
               !.breakpoint_hit_counts =
                  IF is_software_bp THEN @
                  ELSE [@ EXCEPT ![actual_index] = @ + 1],
               !.debug_state_ = "BreakpointHit",
               !.current_thread = pid]
      st1 == [st EXCEPT
                !.regs_pc = npc,
                !.current_breakpoint_index =
                   IF is_software_bp THEN -1 ELSE actual_index,
                !.is_stopped = TRUE,
                !.disabled_watchpoint_index =
                   IF is_software_bp THEN bp_index ELSE @]
      wb == SetTs(w1, pid, st1)
      wn == SetTs(w1, pid, [st1 EXCEPT !.is_stopped = FALSE])
  IN IF wp_index # -1
     THEN H(handle_watchpoint_hit(ww, pid, wp_index), "watchpoint",
            w.pc[pid], "wp_step")
     ELSE IF bp_index = -1 THEN H(w, "none", 0, "left")
     ELSE IF should_break THEN handle_breakpoint_hit(wb, pid, bp_index)
     ELSE IF is_software_bp
     THEN handle_software_breakpoint_continue(wn, pid, bp_index)
     ELSE H(PTRACE_CONT(wn, pid), "breakpoint", npc, "resumed")

\* handle_exception, default case: a signal other than SIGTRAP
SIGSTOP == 19
SIGXCPU == 24
SIGPWR == 30

\* handle_exception, case SIGSTOP: under a pending user suspend the thread is
\* marked stopped_by_user and kill(pid, SIGSTOP) sends the signal again; the
\* thread is left in its stop either way
HandleSigstop(w, pid) ==
  LET st == TsAt(w.thread_states_, pid)
  IN IF w.user_suspend_pending_
     THEN H([SetTs(w, pid, [st EXCEPT !.is_stopped = TRUE,
                                      !.stopped_by_user = TRUE])
               EXCEPT !.sigq = @ \cup {SIGSTOP}],
            "none", 0, "stopped")
     ELSE H(SetTs(w, pid, [st EXCEPT !.is_stopped = TRUE]),
            "none", 0, "stopped")

HandleSignal(w, pid, signal, config) ==
  LET st == TsAt(w.thread_states_, pid)
      has == TsHas(w.thread_states_, pid)
      wc == [SetTs(w, pid,
                   [st EXCEPT !.regs_pc = w.pc[pid],
                              !.current_breakpoint_index = -1,
                              !.is_stopped = TRUE,
                              !.pending_signal =
                                 IF config.pass_signal THEN signal ELSE 0])
               EXCEPT !.debug_state_ = "Paused", !.current_thread = pid]
      signal_to_pass == IF config.pass_signal \/ signal = SIGPWR
                           \/ signal = SIGXCPU
                        THEN signal ELSE 0
      wn == Inject(IF has
                   THEN SetTs(w, pid, [st EXCEPT !.is_stopped = FALSE])
                   ELSE w,
                   pid, signal_to_pass)
  IN IF config.catch_signal THEN H(wc, "signal", w.pc[pid], "stopped")
     ELSE IF has /\ st.single_step_mode # "None"
     THEN H(PTRACE_SINGLESTEP(wn, pid), "none", 0, "resumed")
     ELSE H(PTRACE_CONT(wn, pid), "none", 0, "resumed")

\* handle_exception(pid, status) for the wait status e of thread pid;
\* should_break is what on_exception answers if it is asked
handle_exception(w, pid, e, should_break, config) ==
  LET new_thread == e.arg
      st == TsAt(w.thread_states_, pid)
  IN IF e.k = "exit"
     THEN H([w EXCEPT !.attached_threads_ = @ \ {pid},
                      !.thread_states_ = TsErase(@, {pid})],
            "none", 0, "exited")
     ELSE IF e.k = "clone"
     THEN H(PTRACE_CONT(
              [w EXCEPT
                 !.attached_threads_ = @ \cup {new_thread},
                 !.thread_states_ =
                    TsPut(@, new_thread,
                          [TsAt(@, new_thread) EXCEPT !.is_attached = TRUE])],
              pid), "none", 0, "resumed")
     ELSE IF e.k = "estop" THEN H(PTRACE_CONT(w, pid), "none", 0, "resumed")
     ELSE IF e.k = "sig" /\ e.arg = SIGSTOP THEN HandleSigstop(w, pid)
     ELSE IF e.k = "sig" THEN HandleSignal(w, pid, e.arg, config)
     ELSE IF TsHas(w.thread_states_, pid) /\ st.single_step_mode # "None"
     THEN handle_single_step(w, pid)
     ELSE HandleTrap(w, pid, e.arg, should_break)

\* ---------------------------------------------------------------- initial
SignalNums == {10, SIGPWR}
DefaultSignalConfig == [catch_signal |-> FALSE, pass_signal |-> FALSE]

\* no set_watchpoint to compare with
NoSnapshot == [valid |-> FALSE, hw |-> [t \in Tids |-> NoHw]]

\* std::map<int, SignalConfig>: a signal without an entry reads as
\* SignalConfig(false, false)
NoSignalConfigs == [s \in SignalNums |-> DefaultSignalConfig]
CatchOnly == [catch_signal |-> TRUE, pass_signal |-> FALSE]
PassOnly == [catch_signal |-> FALSE, pass_signal |-> TRUE]

\* what the client has stored in g_signal_config before the debugger is
\* created
InitialGlobalConfigs ==
  IF workload \in {"config", "spawn"}
  THEN {NoSignalConfigs, [NoSignalConfigs EXCEPT ![SIGPWR] = CatchOnly]}
  ELSE {NoSignalConfigs}

\* debugger_new: the map of the new Debugger(pid) is empty, and
\* set_all_signal_configs copies the global map into it unless that is empty
debugger_new(g) == IF g # NoSignalConfigs THEN g ELSE NoSignalConfigs

\* no step over a hardware breakpoint to compare with
NoStepSnapshot == [t \in Tids |-> [valid |-> FALSE, slot |-> -1, hw |-> NoHw]]

\* observation record: nothing / a request completed / an event handled
NoEv ==
  [k |-> "none", tid |-> 0, cause |-> "none", arg |-> 0, type |-> "none",
   npc |-> 0, act |-> "none", ans |-> FALSE, slot |-> -1, n |-> 0,
   cmd |-> "None", id |-> 0, result |-> 0, by |-> "none", late |-> 0]

\* request r was completed with result
EvCmd(r, result) ==
  [NoEv EXCEPT !.k = "cmd", !.cmd = r.cmd, !.id = r.id, !.tid = r.thread_id,
               !.arg = r.address, !.result = result, !.by = "debugger"]

\* the wait status e of thread tid was handled with outcome h while
\* on_exception was set to answer should_break; slot and n are the
\* breakpoint index the thread state held before, and its target count
EvExc(tid, e, h, should_break, slot, n) ==
  [NoEv EXCEPT !.k = "exc", !.tid = tid, !.cause = e.k, !.arg = e.arg,
               !.type = h.type, !.npc = h.npc, !.act = h.act,
               !.ans = should_break, !.slot = slot, !.n = n,
               !.by = "debugger"]

\* PTRACE_DETACH was issued for n threads by the thread named
EvDetach(by, n) == [NoEv EXCEPT !.k = "detach", !.by = by, !.n = n]

\* the state after Debugger(pid), initialize() and run()
Init ==
  /\ arch \in {"arm64", "x86_64"}
  /\ workload \in Workloads
  /\ kst = [t \in Tids |-> IF t \in InitialThreads THEN "running" ELSE "absent"]
  /\ kev = [t \in Tids |-> NoEvent]
  /\ traced = {}
  /\ pc = [t \in Tids |-> Min(CodeAddrs)]
  /\ sstep = [t \in Tids |-> FALSE]
  /\ intr = [t \in Tids |-> FALSE]
  /\ rf = [t \in Tids |-> FALSE]
  /\ hw = [t \in Tids |-> NoHw]
  /\ mem = [a \in CodeAddrs |-> OrigInsn(a)]
  /\ sigs = 0
  /\ dlv = [t \in Tids |-> << >>]
  /\ sigq = {}
  /\ attached_threads_ = {}
  /\ thread_states_ = [t \in {} |-> DefaultThreadState]
  /\ threads_attached_ = FALSE
  /\ debug_loop_running_ = TRUE
  /\ debug_command_queue_ = << >>
  /\ watchpoint_used = [i \in WpSlots |-> FALSE]
  /\ watchpoint_addresses = [i \in WpSlots |-> 0]
  /\ watchpoint_sizes = [i \in WpSlots |-> 0]
  /\ watchpoint_types = [i \in WpSlots |-> WP_READWRITE]
  /\ removing_mask_ = {}
  /\ active_handlers = [i \in WpSlots |-> 0]
  /\ breakpoint_used = [i \in BpSlots |-> FALSE]
  /\ breakpoint_addresses = [i \in BpSlots |-> 0]
  /\ breakpoint_hit_counts = [i \in BpSlots |-> 0]
  /\ breakpoint_target_counts = [i \in BpSlots |-> 0]
  /\ software_breakpoint_used = [i \in SwIdx |-> FALSE]
  /\ software_breakpoint_addresses = [i \in SwIdx |-> 0]
  /\ software_breakpoint_original_bytes = [i \in SwIdx |-> 0]
  /\ debug_state_ = "Running"
  /\ current_thread = 0
  /\ g_signal_config \in InitialGlobalConfigs
  /\ cfg_calls = {}
  /\ signal_config_ = IF SpawnMode THEN NoSignalConfigs
                      ELSE debugger_new(g_signal_config)
  /\ user_suspend_pending_ = FALSE
  /\ dbg_pc = "attach"
  /\ cur = NoReq
  /\ next_id = 1
  /\ done = {}
  /\ destroyed = "no"
  /\ ev = NoEv
  /\ awaiting = {}
  /\ steps = [t \in Tids |-> 0]
  /\ drained = [i \in WpSlots |-> "none"]
  /\ wp_pre = NoSnapshot
  /\ bp_pre = NoStepSnapshot

\* ------------------------------------------------------------ the target
Trap(t, e) ==
  /\ kst' = [kst EXCEPT ![t] = "trapped"]
  /\ kev' = [kev EXCEPT ![t] = e]

\* a traced running thread takes its next step: a pending interrupt trap, a
\* hardware breakpoint, a trap instruction, or the instruction at pc with
\* its watchpoint and single-step traps
TargetStep(t) ==
  LET a == pc[t]
      h == hw[t]
      xs == ExecSlots(h, a)
      ws == IF a \in StoreAt THEN StoreSlots(h, DataAddr, AccessLen) ELSE {}
  IN
  /\ t \in traced
  /\ kst[t] = "running"
  /\ ev' = NoEv
  /\ UNCHANGED <<arch, workload, gvars, hvars, traced, mem, sigs, dlv, evars, cvars>>
  /\ sigq' = IF ~intr[t] /\ sigq # {} THEN sigq \ {Min(sigq)} ELSE sigq
  /\ IF intr[t]
     THEN /\ Trap(t, Event("estop", 0))
          /\ intr' = [intr EXCEPT ![t] = FALSE]
          /\ UNCHANGED <<pc, sstep, rf, hw>>
     ELSE IF sigq # {}
     THEN \* a signal sent to the process: signal-delivery-stop, the
          \* lowest-numbered pending signal first
          /\ Trap(t, Event("sig", Min(sigq)))
          /\ UNCHANGED <<pc, sstep, intr, rf, hw>>
     ELSE IF a \notin CodeAddrs
     THEN \* executing from the middle of an instruction: a fault signal
          /\ Trap(t, Event("sig", Min(SignalNums)))
          /\ UNCHANGED <<pc, sstep, intr, rf, hw>>
     ELSE IF xs # {} /\ ~rf[t]
     THEN /\ Trap(t, Event("bp", a))
          /\ rf' = [rf EXCEPT ![t] = (arch = "x86_64")]
          /\ hw' = [hw EXCEPT ![t].dr6 = IF arch = "x86_64" THEN xs ELSE @]
          /\ UNCHANGED <<pc, sstep, intr>>
     ELSE IF mem[a] = TrapInsn
     THEN /\ Trap(t, Event("swbp", a))
          /\ pc' = [pc EXCEPT ![t] = IF arch = "x86_64" THEN a + 1 ELSE a]
          /\ rf' = [rf EXCEPT ![t] = FALSE]
          /\ hw' = [hw EXCEPT ![t].dr6 = {}]
          /\ UNCHANGED <<sstep, intr>>
     ELSE IF ws # {} /\ arch = "arm64"
     THEN \* the watchpoint traps before the store is done
          /\ Trap(t, Event("wp", DataAddr))
          /\ UNCHANGED <<pc, sstep, intr, rf, hw>>
     ELSE /\ pc' = [pc EXCEPT ![t] = NextPc[a]]
          /\ rf' = [rf EXCEPT ![t] = FALSE]
          /\ UNCHANGED <<intr>>
          /\ IF ws # {}
             THEN /\ Trap(t, Event("wp", DataAddr))
                  /\ hw' = [hw EXCEPT ![t].dr6 = ws]
                  /\ sstep' = [sstep EXCEPT ![t] = FALSE]
             ELSE IF sstep[t]
             THEN /\ Trap(t, Event("step", NextPc[a]))
                  /\ hw' = [hw EXCEPT ![t].dr6 = {}]
                  /\ sstep' = [sstep EXCEPT ![t] = FALSE]
             ELSE UNCHANGED <<kst, kev, hw, sstep>>

\* a running thread creates a thread; under PTRACE_O_TRACECLONE the parent
\* stops with PTRACE_EVENT_CLONE and the new thread, traced from birth and
\* with clean debug registers, stops with PTRACE_EVENT_STOP
TargetClone(t) ==
  LET absent == {u \in Tids : kst[u] = "absent"}
      new == Min(absent)
  IN
  /\ CloneOn
  /\ kst[t] = "running"
  /\ absent # {}
  /\ ev' = NoEv
  /\ pc' = [pc EXCEPT ![new] = pc[t]]
  /\ hw' = [hw EXCEPT ![new] = NoHw]
  /\ IF t \in traced
     THEN /\ kst' = [kst EXCEPT ![t] = "trapped", ![new] = "trapped"]
          /\ kev' = [kev EXCEPT ![t] = Event("clone", new),
                                ![new] = Event("estop", 0)]
          /\ traced' = traced \cup {new}
     ELSE /\ kst' = [kst EXCEPT ![new] = "running"]
          /\ UNCHANGED <<kev, traced>>
  /\ UNCHANGED <<arch, workload, gvars, hvars, sstep, intr, rf, mem, sigs, dlv, sigq,
                 evars, cvars>>

\* a running thread other than the thread-group leader exits: it stays a
\* zombie until its tracer has read the exit status
TargetExit(t) ==
  /\ ExitOn
  /\ t \in traced /\ t # pid_
  /\ kst[t] = "running"
  /\ ev' = NoEv
  /\ kst' = [kst EXCEPT ![t] = "zombie"]
  /\ kev' = [kev EXCEPT ![t] = Event("exit", 0)]
  /\ sstep' = [sstep EXCEPT ![t] = FALSE]
  /\ intr' = [intr EXCEPT ![t] = FALSE]
  /\ UNCHANGED <<arch, workload, gvars, hvars, traced, pc, rf, hw, mem, sigs,
                 dlv, sigq, evars, cvars>>

\* a signal is raised for a traced running thread: signal-delivery-stop
TargetSignal(t, sig) ==
  /\ SignalsOn
  /\ t \in traced
  /\ kst[t] = "running"
  /\ sigs < MaxSignals
  /\ \A q \in sigq : sig < q
  /\ sigs' = sigs + 1
  /\ Trap(t, Event("sig", sig))
  /\ ev' = NoEv
  /\ UNCHANGED <<arch, workload, gvars, hvars, traced, pc, sstep, intr, rf, hw, mem, dlv,
                 sigq, evars, cvars>>

\* ------------------------------------------------------------ the client
BpAddrs == {4}
WpSizes == {4}
WpTypes == {WP_WRITE}

\* what a client thread may push
SetHw(n) == {Req(0, "SetBreakpoint", a, 0, 0, n, FALSE, 0) : a \in BpAddrs}
SetSw == {Req(0, "SetBreakpoint", a, 0, 0, 0, TRUE, 0) : a \in BpAddrs}
RemoveBp == {Req(0, "RemoveBreakpoint", a, 0, 0, 0, FALSE, 0) : a \in BpAddrs}
\* remove_breakpoint with the address one past a breakpoint address, where
\* x86_64 reports the program counter after INT3
RemoveBpPast ==
  {Req(0, "RemoveBreakpoint", a + 1, 0, 0, 0, FALSE, 0) : a \in BpAddrs}
SetWpOf(sizes) == {Req(0, "SetWatchpoint", DataAddr, n, ty, 0, FALSE, 0) :
                     n \in sizes, ty \in WpTypes}
SetWp == SetWpOf(WpSizes)
\* sizes no debug register encodes
OddSizes == {0, 5}
RemoveWp == {Req(0, "RemoveWatchpoint", DataAddr, 0, 0, 0, FALSE, 0)}
Continue == {Req(0, "ContinueExecution", 0, 0, 0, 0, FALSE, t) : t \in Tids}
Step == {Req(0, "SingleStep", 0, 0, 0, 0, FALSE, t) : t \in Tids}
ReadMem == {Req(0, "ReadMemory", Min(CodeAddrs), 0, 0, 0, FALSE, 0)}
\* spawn_process: the address stands for the executable, the entry point of
\* its image, or 0 for a path execvp cannot run
Spawn == {Req(0, "SpawnProcess", a, 0, 0, 0, FALSE, 0) : a \in {0, Min(CodeAddrs)}}
\* continue and single-step requests that name the leader
ContinueLeader == {r \in Continue : r.thread_id = pid_}
StepLeader == {r \in Step : r.thread_id = pid_}

ClientMenu ==
  CASE workload = "hw" -> SetHw(0) \cup RemoveBp \cup Continue \cup Step
    [] workload = "trace" -> UNION {SetHw(n) : n \in 1..MaxHitCount} \cup Continue
    [] workload = "sw" -> SetSw \cup RemoveBp \cup Continue \cup Step
    [] workload = "wp" -> SetWp \cup RemoveWp \cup ReadMem
    [] workload = "mix" -> SetHw(0) \cup SetSw \cup RemoveBp \cup RemoveWp
                             \cup SetWpOf(WpSizes \cup OddSizes)
    [] workload = "sig" -> SetHw(0) \cup ContinueLeader \cup StepLeader
    [] workload = "life" -> SetHw(0) \cup ReadMem
    [] workload = "table" -> SetSw \cup RemoveBp \cup RemoveBpPast
    [] workload = "suspend" -> StepLeader
    [] workload = "fault" -> SetHw(0) \cup RemoveBp
    [] workload = "config" -> {}
    [] workload = "exit" -> SetWp
    [] workload = "spawn" -> Spawn \cup SetHw(0) \cup ContinueLeader \cup StepLeader

\* the number of requests the client threads of the session push
ReqBudget == IF workload = "table" THEN MaxTableReqs ELSE MaxReqs

\* spawn_process_native pushes the spawn request right after run(); the
\* client has the debugger and the pid once spawn has returned 0
SpawnOrder(r) ==
  IF r.cmd = "SpawnProcess" THEN next_id = 1
  ELSE 1 \in done /\ threads_attached_

\* set_breakpoint, set_watchpoint, ... up to the wait: the request is pushed
ClientEnqueue(r) ==
  /\ destroyed = "no"
  /\ next_id <= ReqBudget
  /\ SpawnMode => SpawnOrder(r)
  /\ debug_command_queue_' =
       Append(debug_command_queue_, [r EXCEPT !.id = next_id])
  /\ next_id' = next_id + 1
  /\ ev' = NoEv
  /\ UNCHANGED <<arch, workload, gvars, hvars, kvars, attached_threads_, thread_states_,
                 threads_attached_, debug_loop_running_,
                 watchpoint_used, watchpoint_addresses, watchpoint_sizes,
                 watchpoint_types, removing_mask_, active_handlers,
                 breakpoint_used, breakpoint_addresses, breakpoint_hit_counts,
                 breakpoint_target_counts, software_breakpoint_used,
                 software_breakpoint_addresses,
                 software_breakpoint_original_bytes,
                 debug_state_, current_thread, signal_config_,
                 user_suspend_pending_,
                 dbg_pc, cur, done, destroyed>>

\* suspend_process: the flag is raised and SIGSTOP is sent to the process
ClientSuspendProcess ==
  /\ SuspendOn
  /\ destroyed = "no"
  /\ ~user_suspend_pending_
  /\ next_id <= ReqBudget
  /\ user_suspend_pending_' = TRUE
  /\ sigq' = sigq \cup {SIGSTOP}
  /\ ev' = NoEv
  /\ UNCHANGED <<arch, workload, gvars, hvars, kst, kev, traced, pc, sstep, intr, rf, hw,
                 mem, sigs, dlv, attached_threads_, thread_states_,
                 threads_attached_, debug_loop_running_, debug_command_queue_,
                 watchpoint_used, watchpoint_addresses, watchpoint_sizes,
                 watchpoint_types, removing_mask_, active_handlers,
                 breakpoint_used, breakpoint_addresses, breakpoint_hit_counts,
                 breakpoint_target_counts, software_breakpoint_used,
                 software_breakpoint_addresses,
                 software_breakpoint_original_bytes,
                 debug_state_, current_thread, signal_config_, cvars>>

\* resume_process: the flag is lowered and resume_all_user_stopped_threads
\* pushes its request
ClientResumeProcess ==
  /\ SuspendOn
  /\ destroyed = "no"
  /\ user_suspend_pending_
  /\ next_id <= ReqBudget
  /\ user_suspend_pending_' = FALSE
  /\ debug_command_queue_' =
       Append(debug_command_queue_,
              Req(next_id, "ResumeUserStoppedThreads", 0, 0, 0, 0, FALSE, 0))
  /\ next_id' = next_id + 1
  /\ ev' = NoEv
  /\ UNCHANGED <<arch, workload, gvars, hvars, kvars, attached_threads_, thread_states_,
                 threads_attached_, debug_loop_running_,
                 watchpoint_used, watchpoint_addresses, watchpoint_sizes,
                 watchpoint_types, removing_mask_, active_handlers,
                 breakpoint_used, breakpoint_addresses, breakpoint_hit_counts,
                 breakpoint_target_counts, software_breakpoint_used,
                 software_breakpoint_addresses,
                 software_breakpoint_original_bytes,
                 debug_state_, current_thread, signal_config_,
                 dbg_pc, cur, done, destroyed>>

\* a call of the native API in flight: op is "set" or "remove"
ConfigCall(op, sig, config) == [op |-> op, sig |-> sig, config |-> config]

\* what a session lets its client threads configure: the "config" sessions
\* set and remove one signal freely, the others set each signal once
ConfigAllowed(sig, config) ==
  IF workload = "config"
  THEN sig = SIGPWR /\ config \in {CatchOnly, PassOnly}
  ELSE /\ g_signal_config[sig] = DefaultSignalConfig
       /\ config # DefaultSignalConfig
       /\ Cardinality({s \in SignalNums :
                         g_signal_config[s] # DefaultSignalConfig})
            < MaxConfigured

\* set_signal_config_native up to the release of g_signal_config_mutex: the
\* global map is written
ClientSetSignalConfig(sig, config) ==
  /\ ConfigOn
  /\ destroyed = "no"
  /\ Cardinality(cfg_calls) < ClientThreads
  /\ ConfigAllowed(sig, config)
  /\ g_signal_config' = [g_signal_config EXCEPT ![sig] = config]
  /\ cfg_calls' = cfg_calls \cup {ConfigCall("set", sig, config)}
  /\ ev' = NoEv
  /\ UNCHANGED <<arch, workload, hvars, kvars, evars, cvars>>

\* remove_signal_config_native up to the release of g_signal_config_mutex:
\* the entry of the global map is erased
ClientRemoveSignalConfig(sig) ==
  /\ workload = "config"
  /\ destroyed = "no"
  /\ Cardinality(cfg_calls) < ClientThreads
  /\ sig = SIGPWR
  /\ g_signal_config' = [g_signal_config EXCEPT ![sig] = DefaultSignalConfig]
  /\ cfg_calls' =
       cfg_calls \cup {ConfigCall("remove", sig, DefaultSignalConfig)}
  /\ ev' = NoEv
  /\ UNCHANGED <<arch, workload, hvars, kvars, evars, cvars>>

\* Debugger::set_signal_config and Debugger::remove_signal_config
set_signal_config(configs, signal, config) ==
  [configs EXCEPT ![signal] = config]
remove_signal_config(configs, signal) ==
  [configs EXCEPT ![signal] = DefaultSignalConfig]

\* the rest of set_signal_config_native or remove_signal_config_native: with
\* a debugger instance, its map is written under signal_config_mutex_
ClientConfigDebugger(c) ==
  /\ c \in cfg_calls
  /\ cfg_calls' = cfg_calls \ {c}
  /\ signal_config_' =
       IF destroyed # "no" THEN signal_config_
       ELSE IF c.op = "set"
       THEN set_signal_config(signal_config_, c.sig, c.config)
       ELSE remove_signal_config(signal_config_, c.sig)
  /\ ev' = NoEv
  /\ UNCHANGED <<arch, workload, g_signal_config, hvars, kvars,
                 attached_threads_, thread_states_,
                 threads_attached_, debug_loop_running_, debug_command_queue_,
                 watchpoint_used, watchpoint_addresses, watchpoint_sizes,
                 watchpoint_types, removing_mask_, active_handlers,
                 breakpoint_used, breakpoint_addresses, breakpoint_hit_counts,
                 breakpoint_target_counts, software_breakpoint_used,
                 software_breakpoint_addresses,
                 software_breakpoint_original_bytes,
                 debug_state_, current_thread, user_suspend_pending_,
                 cvars>>

\* ~Debugger up to the join
DestroyBegin ==
  /\ DestroyOn
  /\ destroyed = "no"
  /\ destroyed' = "joining"
  /\ debug_loop_running_' = FALSE
  /\ ev' = NoEv
  /\ UNCHANGED <<arch, workload, gvars, hvars, kvars, attached_threads_, thread_states_,
                 threads_attached_, debug_command_queue_,
                 watchpoint_used, watchpoint_addresses, watchpoint_sizes,
                 watchpoint_types, removing_mask_, active_handlers,
                 breakpoint_used, breakpoint_addresses, breakpoint_hit_counts,
                 breakpoint_target_counts, software_breakpoint_used,
                 software_breakpoint_addresses,
                 software_breakpoint_original_bytes,
                 debug_state_, current_thread, signal_config_,
                 user_suspend_pending_,
                 dbg_pc, cur, next_id, done>>

\* ~Debugger after the join.  PTRACE_DETACH is issued by the destroying
\* thread, which is not the tracer: the kernel answers ESRCH.
DestroyEnd ==
  /\ destroyed = "joining"
  /\ dbg_pc = "exited"
  /\ destroyed' = "done"
  /\ ev' = IF attached_threads_ = {} THEN NoEv
           ELSE EvDetach("client", Cardinality(attached_threads_))
  /\ UNCHANGED <<arch, workload, gvars, hvars, kvars, evars, dbg_pc, cur, next_id, done>>

\* ---------------------------------------------------- the debugger thread
\* The thread function returns: the kernel detaches the tracees of the
\* ending tracer thread, and those in a ptrace-stop run again.
TracerExit(w) ==
  [w EXCEPT
     !.traced = {},
     !.kst = [t \in Tids |->
                IF w.kst[t] \in {"trapped", "stopped"} THEN "running"
                ELSE w.kst[t]],
     !.kev = [t \in Tids |-> NoEvent],
     !.sstep = [t \in Tids |-> FALSE],
     !.intr = [t \in Tids |-> FALSE]]

\* the position of the debugger thread after process_command_queue has
\* completed a request or the loop has come round: the queue is found empty
\* and process_command_queue returns ("wait"), or it holds a request
AfterQueueCheck(q) == IF q = << >> THEN "wait" ELSE "queue"

\* the end of an iteration of while (debug_loop_running_): the sleep, the
\* test of the flag, and the test of the queue by process_command_queue
LoopEnd(w) ==
  /\ Install(w)
  /\ dbg_pc' = IF debug_loop_running_
               THEN AfterQueueCheck(w.debug_command_queue_)
               ELSE "return"

DbgAttachOk ==
  LET list == ThreadList(World)
      ts == thread_states_
  IN
  /\ dbg_pc = "attach"
  /\ ~SpawnMode
  /\ threads_attached_' = TRUE
  /\ LoopEnd([World EXCEPT
               !.traced = @ \cup list,
               !.attached_threads_ = @ \cup list,
               !.thread_states_ =
                  [t \in (DOMAIN ts) \cup list |->
                     IF t \in list
                     THEN [TsAt(ts, t) EXCEPT !.is_attached = TRUE]
                     ELSE ts[t]]])
  /\ ev' = NoEv
  /\ UNCHANGED <<arch, workload, gvars, hvars, sigs, debug_loop_running_, signal_config_,
                 user_suspend_pending_,
                 cur, done, destroyed>>

\* debug_message_loop returns and the debugger thread ends; no thread is in
\* break state any more
DbgReturn ==
  /\ dbg_pc = "return"
  /\ Install(TracerExit(World))
  /\ dbg_pc' = "exited"
  /\ awaiting' = {}
  /\ wp_pre' = NoSnapshot
  /\ bp_pre' = NoStepSnapshot
  /\ ev' = NoEv
  /\ UNCHANGED <<arch, workload, gvars, steps, drained, sigs, threads_attached_,
                 debug_loop_running_, signal_config_,
                 user_suspend_pending_, cur, done, destroyed>>

\* PTRACE_SEIZE is refused for every thread: attach_to_threads returns -1 and
\* debug_message_loop returns
DbgAttachFail ==
  /\ dbg_pc = "attach"
  /\ ~SpawnMode
  /\ dbg_pc' = "exited"
  /\ ev' = NoEv
  /\ UNCHANGED <<arch, workload, gvars, hvars, kvars, evars, cur, next_id, done, destroyed>>

\* pid_ is 0: debug_message_loop skips attach_to_threads and enters the loop
DbgAttachSkip ==
  /\ dbg_pc = "attach"
  /\ SpawnMode
  /\ LoopEnd(World)
  /\ ev' = NoEv
  /\ UNCHANGED <<arch, workload, gvars, hvars, sigs, threads_attached_,
                 debug_loop_running_, signal_config_,
                 user_suspend_pending_, cur, done, destroyed>>

\* a queue that hands out its newest element
QueueBack(q) == q[Len(q)]

\* front() and pop() of the queue
QueueFront(q) == Head(q)
QueuePop(q) == Tail(q)

\* process_command_queue takes the next request
DbgDequeue ==
  /\ dbg_pc = "queue"
  /\ cur = NoReq
  /\ debug_command_queue_ # << >>
  /\ cur' = QueueFront(debug_command_queue_)
  /\ debug_command_queue_' = QueuePop(debug_command_queue_)
  /\ ev' = NoEv
  /\ UNCHANGED <<arch, workload, gvars, hvars, kvars, attached_threads_, thread_states_,
                 threads_attached_, debug_loop_running_,
                 watchpoint_used, watchpoint_addresses, watchpoint_sizes,
                 watchpoint_types, removing_mask_, active_handlers,
                 breakpoint_used, breakpoint_addresses, breakpoint_hit_counts,
                 breakpoint_target_counts, software_breakpoint_used,
                 software_breakpoint_addresses,
                 software_breakpoint_original_bytes,
                 debug_state_, current_thread, signal_config_,
                 user_suspend_pending_,
                 dbg_pc, next_id, done, destroyed>>

\* the switch of process_command_queue
\* resume_all_user_stopped_threads_internal: PTRACE_CONT, with no signal, for
\* every thread marked stopped_by_user; the result is the number resumed
resume_all_user_stopped_threads_internal(w) ==
  LET S == {t \in DOMAIN w.thread_states_ :
              w.thread_states_[t].stopped_by_user}
      ok == {t \in S : InStop(w, t)}
  IN R([w EXCEPT
          !.kst = [t \in Tids |-> IF t \in ok THEN "running" ELSE @[t]],
          !.kev = [t \in Tids |-> IF t \in ok THEN NoEvent ELSE @[t]],
          !.sstep = [t \in Tids |-> IF t \in ok THEN FALSE ELSE @[t]],
          !.thread_states_ =
             [t \in DOMAIN @ |->
                IF t \in ok THEN [@[t] EXCEPT !.stopped_by_user = FALSE,
                                              !.is_stopped = FALSE]
                ELSE @[t]]],
       Cardinality(ok))

\* ------------------------------------------------------------- spawn
\* fork, PTRACE_TRACEME and execvp in the child, waitpid in the debugger
\* thread: the child stops with SIGTRAP at the entry point of the new image
\* and the stop is read
ForkExec(w, entry) ==
  [w EXCEPT !.kst[pid_] = "stopped", !.kev[pid_] = NoEvent,
            !.traced = @ \cup {pid_}, !.pc[pid_] = entry,
            !.sstep[pid_] = FALSE, !.intr[pid_] = FALSE, !.hw[pid_] = NoHw]

\* kill(SIGSTOP), PTRACE_DETACH, waitpid(WUNTRACED): the child leaves the
\* trace stop, takes the pending SIGSTOP before it returns to user mode and
\* is in a group stop, traced by nobody
StopAndDetach(w) == [w EXCEPT !.traced = @ \ {pid_}]

\* a seize that lets the child run on
SeizeRunning(w) ==
  [w EXCEPT !.traced = @ \cup {pid_}, !.kst[pid_] = "running"]

\* PTRACE_SEIZE of the stopped child: it re-traps and reports
\* PTRACE_EVENT_STOP
SeizeStopped(w) ==
  [w EXCEPT !.traced = @ \cup {pid_}, !.kst[pid_] = "trapped",
            !.kev[pid_] = Event("estop", 0)]

\* PTRACE_INTERRUPT: a thread that is running traps at its next step; for a
\* thread already in a stop the trap stays pending
PTRACE_INTERRUPT(w, t) == [w EXCEPT !.intr[t] = TRUE]

\* waitpid(pid, &status, 0) of the debugger thread reads the unread stop
WaitStop(w, t) ==
  IF w.kst[t] = "trapped"
  THEN [w EXCEPT !.kst[t] = "stopped", !.kev[t] = NoEvent]
  ELSE w

\* the promotion from TRACEME to SEIZE (steps 1 to 6)
PromoteToSeize(w) ==
  WaitStop(PTRACE_INTERRUPT(SeizeStopped(StopAndDetach(w)), pid_), pid_)

\* "Update debugger state"
SpawnRegister(w) ==
  [w EXCEPT
     !.attached_threads_ = @ \cup {pid_},
     !.thread_states_ =
        [t \in (DOMAIN @) \cup {pid_} |->
           IF t = pid_
           THEN [TsAt(@, t) EXCEPT !.is_attached = TRUE, !.is_stopped = TRUE,
                                   !.current_breakpoint_index = -1,
                                   !.single_step_mode = "None"]
           ELSE @[t]],
     !.current_thread = pid_,
     !.debug_state_ = "Paused"]

\* spawn_process_internal: a child that exits instead of stopping (execvp
\* failed) gives -1
spawn_process_internal(w, r) ==
  IF r.address = 0 THEN R(w, -1)
  ELSE R(SpawnRegister(PromoteToSeize(ForkExec(w, r.address))), 0)

\* the exception notification at the end of a spawn: sent when the registers
\* of the child can be read
SpawnNotifies(r, x) ==
  r.cmd = "SpawnProcess" /\ x.result = 0 /\ InStop(x.w, pid_)

ExecCommand(w, r, fault) ==
  CASE r.cmd = "SetWatchpoint" ->
         set_watchpoint_internal(w, r.address, r.size, r.type)
    [] r.cmd = "RemoveWatchpoint" -> remove_watchpoint_internal(w, r.address)
    [] r.cmd = "SetBreakpoint" ->
         IF r.sw THEN set_software_breakpoint_internal(w, r.address)
         ELSE set_hardware_breakpoint_internal(w, r.address, r.hit_count,
                                               fault)
    [] r.cmd = "RemoveBreakpoint" -> remove_breakpoint_internal(w, r.address)
    [] r.cmd = "ContinueExecution" ->
         continue_execution_internal(w, r.thread_id)
    [] r.cmd = "SingleStep" -> single_step_internal(w, r.thread_id)
    [] r.cmd = "ReapplyWatchpoints" ->
         reapply_all_watchpoints_internal(w, r.thread_id)
    [] r.cmd = "ReadMemory" -> read_memory_internal(w)
    [] r.cmd = "SpawnProcess" -> spawn_process_internal(w, r)
    [] r.cmd = "ResumeUserStoppedThreads" ->
         resume_all_user_stopped_threads_internal(w)
    [] OTHER -> R(w, -1)

\* where the deadline of stop_all_threads can fall: before the last pass (0),
\* or after the poll of a thread that reports no stop
Deadlines ==
  IF cur.cmd \in {"SetBreakpoint", "RemoveBreakpoint", "SetWatchpoint",
                  "RemoveWatchpoint", "ReapplyWatchpoints", "ReadMemory"}
  THEN {0} \cup {t \in attached_threads_ :
                   kst[t] = "stopped" /\ ~TsAt(thread_states_, t).is_stopped}
  ELSE {0}

\* process_command_queue runs the request it took and marks it completed
DbgExec(fault) ==
  \E late \in Deadlines :
  LET x == ExecCommand([World EXCEPT !.late = late], cur, fault)
      wp_index == IF cur.cmd = "SetWatchpoint" THEN find_free_watchpoint(World)
                  ELSE find_watchpoint_index(World, cur.address)
  IN
  /\ dbg_pc = "queue"
  /\ cur # NoReq
  /\ Install(x.w)
  /\ cur' = NoReq
  /\ done' = IF cur.id > 0 THEN done \cup {cur.id} ELSE done
  /\ dbg_pc' = AfterQueueCheck(x.w.debug_command_queue_)
  /\ ev' = IF SpawnNotifies(cur, x)
            THEN [EvCmd(cur, x.result) EXCEPT !.type = "breakpoint",
                                              !.tid = pid_]
            ELSE [EvCmd(cur, x.result) EXCEPT !.late = late]
  /\ threads_attached_' =
       IF cur.cmd = "SpawnProcess" /\ x.result = 0 THEN TRUE
       ELSE threads_attached_
  /\ awaiting' = IF cur.cmd \in {"ContinueExecution", "SingleStep"}
                 THEN awaiting \ {cur.thread_id}
                 ELSE awaiting
  /\ drained' =
       IF cur.cmd = "RemoveWatchpoint" /\ wp_index # -1
       THEN [drained EXCEPT
               ![wp_index] = IF x.result = 0 THEN "removed" ELSE "failed"]
       ELSE IF cur.cmd = "SetWatchpoint" /\ x.result = 0
       THEN [drained EXCEPT ![wp_index] = "none"]
       ELSE drained
  /\ wp_pre' = IF cur.cmd = "SetWatchpoint" /\ x.result = 0
                THEN [valid |-> TRUE, hw |-> hw]
                ELSE NoSnapshot
  /\ bp_pre' =
       IF cur.cmd = "SingleStep" /\ x.result = 0 /\ cur.thread_id \in Tids
          /\ TsAt(thread_states_, cur.thread_id).current_breakpoint_index
               \in BpSlots
       THEN [bp_pre EXCEPT
               ![cur.thread_id] =
                  [valid |-> TRUE,
                   slot |-> thread_states_[cur.thread_id]
                              .current_breakpoint_index,
                   hw |-> hw[cur.thread_id]]]
       ELSE IF cur.cmd \in {"SingleStep", "ContinueExecution", "ReadMemory",
                            "ResumeUserStoppedThreads", "SpawnProcess"}
       THEN bp_pre
       ELSE NoStepSnapshot
  /\ UNCHANGED <<arch, workload, gvars, steps, sigs,
                 debug_loop_running_, signal_config_, user_suspend_pending_, destroyed>>

\* waitpid has returned the status of thread t: a ptrace-stop has been read,
\* a zombie has been reaped
StatusRead(w, t) ==
  IF w.kst[t] = "zombie"
  THEN [w EXCEPT !.kst[t] = "absent", !.kev[t] = NoEvent,
                 !.traced = @ \ {t}]
  ELSE [w EXCEPT !.kst[t] = "stopped", !.kev[t] = NoEvent]

\* wait_for_debug_event finds nothing to report
DbgPollNone ==
  /\ dbg_pc = "wait"
  /\ \A t \in traced : kst[t] \notin {"trapped", "zombie"}
  /\ LoopEnd(World)
  /\ ev' = NoEv
  /\ UNCHANGED <<arch, workload, gvars, hvars, sigs, threads_attached_,
                 debug_loop_running_, signal_config_,
                 user_suspend_pending_, cur, done, destroyed>>

\* waitpid(-1) reports a thread that is not in attached_threads_: the status
\* is read and wait_for_debug_event returns -1
DbgPollDrop(t) ==
  /\ dbg_pc = "wait"
  /\ t \in traced /\ kst[t] \in {"trapped", "zombie"}
  /\ t \notin attached_threads_
  /\ LoopEnd(StatusRead(World, t))
  /\ ev' = [NoEv EXCEPT !.k = "drop", !.tid = t, !.cause = kev[t].k]
  /\ UNCHANGED <<arch, workload, gvars, hvars, sigs, threads_attached_,
                 debug_loop_running_, signal_config_,
                 user_suspend_pending_, cur, done, destroyed>>

HitCountsBounded(w) == \A i \in BpSlots : w.breakpoint_hit_counts[i] <= MaxHits

\* waitpid(-1) reports an attached thread: handle_exception
DbgPollEvent(t, should_break) ==
  LET e == kev[t]
      w0 == StatusRead(World, t)
      x == handle_exception(w0, t, e, should_break,
                            signal_config_[IF e.k = "sig" /\ e.arg \in SignalNums
                                           THEN e.arg
                                           ELSE Min(SignalNums)])
      slot == TsAt(thread_states_, t).current_breakpoint_index
      n == IF slot \in BpSlots THEN breakpoint_target_counts[slot] ELSE 0
  IN
  /\ dbg_pc = "wait"
  /\ t \in traced /\ kst[t] \in {"trapped", "zombie"}
  /\ t \in attached_threads_
  /\ HitCountsBounded(x.w)
  /\ LoopEnd(x.w)
  /\ ev' = EvExc(t, e, x, should_break, slot, n)
  /\ awaiting' = IF x.act = "stopped" /\ x.type \in {"breakpoint", "signal"}
                 THEN awaiting \cup {t}
                 ELSE awaiting
  /\ steps' = [steps EXCEPT
                 ![t] = IF x.type = "breakpoint"
                        THEN (IF x.act = "trace_step" THEN 1 ELSE 0)
                        ELSE IF x.act = "trace_step" THEN @ + 1
                        ELSE @]
  /\ wp_pre' = NoSnapshot
  /\ bp_pre' = [bp_pre EXCEPT ![t] = NoStepSnapshot[t]]
  /\ UNCHANGED <<arch, workload, gvars, drained, sigs, threads_attached_,
                 debug_loop_running_, signal_config_,
                 user_suspend_pending_, cur, done, destroyed>>

Next ==
  \/ \E t \in Tids : TargetStep(t)
  \/ \E t \in Tids : TargetClone(t)
  \/ \E t \in Tids : TargetExit(t)
  \/ \E t \in Tids, sig \in SignalNums : TargetSignal(t, sig)
  \/ \E r \in ClientMenu : ClientEnqueue(r)
  \/ \E sig \in SignalNums, c \in BOOLEAN, p \in BOOLEAN :
       ClientSetSignalConfig(sig, [catch_signal |-> c, pass_signal |-> p])
  \/ \E sig \in SignalNums : ClientRemoveSignalConfig(sig)
  \/ \E c \in cfg_calls : ClientConfigDebugger(c)
  \/ ClientSuspendProcess
  \/ ClientResumeProcess
  \/ DestroyBegin
  \/ DestroyEnd
  \/ DbgAttachOk
  \/ DbgAttachFail
  \/ DbgAttachSkip
  \/ DbgReturn
  \/ DbgDequeue
  \/ \E fault \in Faults : DbgExec(fault)
  \/ DbgPollNone
  \/ \E t \in Tids : DbgPollDrop(t)
  \/ \E t \in Tids, should_break \in BOOLEAN : DbgPollEvent(t, should_break)

Spec == Init /\ [][Next]_vars

\* ------------------------------------------------------------ queries
is_in_break_state == debug_state_ \in {"BreakpointHit", "WatchpointHit"}

\* ---------------------------------------------------------- properties
ClientIds == 1..(IF MaxTableReqs > MaxReqs THEN MaxTableReqs ELSE MaxReqs)

\* C1: client requests are executed in the order they were pushed: when the
\* debugger thread has started request j (it is being executed or is
\* completed), every request pushed before j is already marked completed.
C1_Fifo ==
  \A i, j \in ClientIds :
    (i < j /\ (cur.id = j \/ j \in done)) => i \in done

\* the second request is being executed, the first one is completed and a
\* third one waits in the queue
C1_Witness ==
  /\ cur.id = 2
  /\ 1 \in done
  /\ debug_command_queue_ # << >>

\* C2: every pushed request is completed.  The debugger thread is the only
\* one that completes requests, so once it has ended no pushed request may
\* be left uncompleted.
C2_AllCompleted ==
  dbg_pc = "exited" => \A i \in 1..(next_id - 1) : i \in done

\* C3: a breakpoint hit for which on_exception answers false leaves no break
\* state behind: once the event is handled, the hitting thread is not in the
\* middle of a step and no other thread waits in break state,
\* is_in_break_state() is false.
C3_SilentHit ==
  (/\ ev.k = "exc"
   /\ ev.type = "breakpoint"
   /\ ~ev.ans
   /\ awaiting = {}
   /\ TsAt(thread_states_, ev.tid).single_step_mode = "None")
  => ~is_in_break_state

\* C4: a thread stopped in break state (on_exception answered true for its
\* breakpoint, or a caught signal stopped it) stays in its stop until a
\* continue or single_step for that thread is executed.
C4_StaysStopped == \A t \in awaiting : kst[t] = "stopped"

\* a set or remove has just succeeded, stopping and resuming another thread,
\* while a thread is in break state
C4_Witness ==
  /\ awaiting # {}
  /\ ev.k = "cmd"
  /\ ev.cmd \in {"SetBreakpoint", "RemoveBreakpoint"}
  /\ ev.result = 0
  /\ \E u \in attached_threads_ \ awaiting : kst[u] = "running"

\* C5: with a wait-mode hardware breakpoint in use at A (and no watchpoint
\* in use), every hardware breakpoint trap of a thread at A for which
\* on_exception answers true is reported with exception_type breakpoint and
\* pc A, and leaves the thread stopped with debug state BreakpointHit.
C5_EveryArrivalReported ==
  (/\ ev.k = "exc"
   /\ ev.cause = "bp"
   /\ ev.ans
   /\ \A i \in WpSlots : ~watchpoint_used[i]
   /\ \E i \in BpSlots : /\ breakpoint_used[i]
                         /\ breakpoint_addresses[i] = ev.arg
                         /\ breakpoint_target_counts[i] = 0)
  => /\ ev.type = "breakpoint"
     /\ ev.npc = ev.arg
     /\ ev.act = "stopped"
     /\ kst[ev.tid] = "stopped"
     /\ debug_state_ = "BreakpointHit"

\* C6: when a trace-mode breakpoint with hit_count N is auto-removed, the
\* engine has issued exactly N single-steps on the hitting thread since the
\* hit.
C6_ExactlyNSteps ==
  (ev.k = "exc" /\ ev.act = "trace_done") => steps[ev.tid] = ev.n

\* one thread's registers have breakpoint slot i armed
Armed(h, i) == IF arch = "arm64" THEN CtrlEnabled(h.bcr[i]) ELSE h.dr7l[i]

\* C7: when a trace-mode breakpoint reaches its target count its slot is
\* free, no attached thread has it armed in its debug registers, and the
\* hitting thread runs.
C7_TraceDone ==
  (ev.k = "exc" /\ ev.act = "trace_done")
  => /\ ~breakpoint_used[ev.slot]
     /\ \A u \in attached_threads_ : ~Armed(hw[u], ev.slot)
     /\ kst[ev.tid] = "running"

\* a watchpoint of the engine's table covers the store of the target
C8_Covered ==
  \E i \in WpSlots :
    /\ watchpoint_used[i]
    /\ i \notin removing_mask_
    /\ watchpoint_types[i] \in {WP_WRITE, WP_READWRITE}
    /\ Overlap(watchpoint_addresses[i], watchpoint_sizes[i],
               DataAddr, AccessLen)

\* thread t executes the store in this step
C8_Access(t) ==
  /\ t \in attached_threads_
  /\ kst[t] = "running"
  /\ pc[t] \in StoreAt
  /\ pc'[t] # pc[t]

\* the store raises the watchpoint trap (x86_64, after the access), or it
\* is the step over the access that follows a reported hit (ARM64)
C8_Notified(t) ==
  \/ kev'[t].k = "wp"
  \/ TsAt(thread_states_, t).single_step_mode = "Watchpoint"

\* C8: while a watchpoint set with success covers it, no store of an
\* attached thread (threads attached through a clone event included) gets
\* past the access without a watchpoint hit for that thread.
C8_EveryAccessNotified ==
  [][\A t \in Tids : (C8_Covered /\ C8_Access(t)) => C8_Notified(t)]_vars

\* C9: right after remove_watchpoint returned success, the removed slot has
\* no hit handler in flight: its active_handlers is 0 and no thread is in
\* watchpoint-restore single-step mode for it.
C9_NoHandlerInFlight ==
  (ev.k = "cmd" /\ ev.cmd = "RemoveWatchpoint" /\ ev.result = 0)
  => \A i \in WpSlots :
       drained[i] = "removed"
       => /\ active_handlers[i] = 0
          /\ \A t \in DOMAIN thread_states_ :
               ~(/\ thread_states_[t].single_step_mode = "Watchpoint"
                 /\ thread_states_[t].disabled_watchpoint_index = i)

\* the slot of the watchpoint hit that was just reported
WpHitSlot == TsAt(thread_states_, ev.tid).disabled_watchpoint_index

\* C10: after a remove_watchpoint has set removing[i] and waited for the
\* drain, whatever it returned, no watchpoint hit of slot i is reported
\* until a watchpoint is set in slot i again.
C10_NoHitAfterDrain ==
  (ev.k = "exc" /\ ev.type = "watchpoint" /\ WpHitSlot \in WpSlots)
  => drained[WpHitSlot] = "none"

\* a software breakpoint is recorded at address a
SwRecorded(a) ==
  \E i \in SwIdx :
    software_breakpoint_used[i] /\ software_breakpoint_addresses[i] = a

\* C11: whenever no software breakpoint is recorded at a code address, and
\* no thread is in the middle of a step over one, target memory at that
\* address holds the original instruction.
C11_MemoryRestored ==
  \A a \in CodeAddrs :
    (/\ ~SwRecorded(a)
     /\ \A t \in DOMAIN thread_states_ :
          thread_states_[t].single_step_mode = "None")
    => mem[a] = OrigInsn(a)

\* C13: the software-breakpoint table never holds two in-use entries for
\* the same address.
C13_OneEntryPerAddress ==
  \A i, j \in SwIdx :
    (/\ software_breakpoint_used[i]
     /\ software_breakpoint_used[j]
     /\ software_breakpoint_addresses[i] = software_breakpoint_addresses[j])
    => i = j

\* the address and control/enable registers of h (DR6, the status
\* register the hardware writes, left out)
AddrCtrl(h) == [h EXCEPT !.dr6 = {}]

\* the last step of the debugger thread was a remove_watchpoint that
\* returned success, and the step before it of that thread was the
\* set_watchpoint that returned success
C12_SetThenRemove ==
  /\ wp_pre.valid
  /\ ev'.k = "cmd"
  /\ ev'.cmd = "RemoveWatchpoint"
  /\ ev'.result = 0

\* C12: a successful set_watchpoint followed by a successful
\* remove_watchpoint leaves the debug registers of every attached thread as
\* they were before the set.
C12_RegistersRestored ==
  [][C12_SetThenRemove
     => \A t \in attached_threads_' :
          AddrCtrl(hw'[t]) = AddrCtrl(wp_pre.hw[t])]_vars

\* the wait status of thread t reports the signal-delivery-stop of a
\* signal other than SIGSTOP
SignalStop(t) ==
  kst[t] = "trapped" /\ kev[t].k = "sig" /\ kev[t].arg \in SignalNums

\* the reaction (catch, pass) calls for when the signal stop of thread t is
\* read in this step
SignalReaction(t, s, config) ==
  IF config.catch_signal
  THEN /\ kst'[t] = "stopped"
       /\ TsAt(thread_states_', t).is_stopped
       /\ TsAt(thread_states_', t).pending_signal =
             (IF config.pass_signal THEN s ELSE 0)
       /\ dlv'[t] = dlv[t]
       /\ ev'.k = "exc" /\ ev'.tid = t /\ ev'.type = "signal"
  ELSE /\ kst'[t] = "running"
       /\ ~TsAt(thread_states_', t).is_stopped
       /\ ev'.type = "none"
       /\ dlv'[t] = (IF config.pass_signal \/ s \in {SIGPWR, SIGXCPU}
                     THEN Append(dlv[t], s) ELSE dlv[t])

\* C14: whenever the debugger reads the signal-delivery-stop of a thread for
\* signal s, it reacts as the (catch, pass) pair configured for s says:
\* catch=false resumes the thread at once without a notification and injects
\* s iff pass (SIGPWR and SIGXCPU always); catch=true leaves the thread
\* stopped with pending_signal = s if pass else 0 and notifies the client
C14_SignalReaction ==
  [][\A t \in Tids :
       (SignalStop(t) /\ kev'[t] # kev[t])
         => SignalReaction(t, kev[t].arg, signal_config_[kev[t].arg])]_vars

\* the caught signal thread t holds for its next restart, 0 if none
PendingSignal(ts, t) == IF TsHas(ts, t) THEN ts[t].pending_signal ELSE 0

\* C15: a caught signal held in pending_signal is injected by the step that
\* next restarts the thread, and pending_signal is given up (reset to 0, or
\* replaced) only in a step that injects it, once
C15_PendingDeliveredOnce ==
  [][\A t \in Tids :
       (/\ PendingSignal(thread_states_, t) # 0
        /\ \/ PendingSignal(thread_states_', t) # PendingSignal(thread_states_, t)
           \/ (kst[t] \in {"trapped", "stopped"} /\ kst'[t] = "running"))
         => dlv'[t] = Append(dlv[t], PendingSignal(thread_states_, t))]_vars

\* C16: a step that changes debug_state_ to Running leaves no attached thread
\* marked is_stopped
C16_RunningOnlyWhenNoneStopped ==
  [][(debug_state_ # "Running" /\ debug_state_' = "Running")
       => \A t \in attached_threads_' :
            ~TsAt(thread_states_', t).is_stopped]_vars

\* thread t is attached, marked stopped and in a ptrace-stop whose status
\* the debugger has read: it stays there until the client restarts it
StoppedForClient(t) ==
  /\ t \in attached_threads_
  /\ TsAt(thread_states_, t).is_stopped
  /\ kst[t] = "stopped"

\* C17: while is_in_break_state() is true some attached thread is stopped,
\* waiting for the client to continue or single-step it
C17_BreakStateHasStoppedThread ==
  is_in_break_state => \E t \in Tids : StoppedForClient(t)

\* the step completes a continue_execution or single_step request
RestartDone ==
  /\ cur.cmd \in {"ContinueExecution", "SingleStep"}
  /\ ev'.k = "cmd" /\ ev'.id = cur.id

\* the thread the request names is attached and marked stopped
RestartTargetStopped ==
  /\ cur.thread_id \in attached_threads_
  /\ TsAt(thread_states_, cur.thread_id).is_stopped

\* C18: continue_execution and single_step return 0 only for an attached
\* thread marked stopped; for any other thread id the result is negative
\* and neither the engine state nor the target changes
C18_RestartNeedsStoppedThread ==
  [][RestartDone =>
       /\ ev'.result = 0 => RestartTargetStopped
       /\ ~RestartTargetStopped =>
            (ev'.result < 0 /\ UNCHANGED <<kvars, evars>>)]_vars

\* the step completes a set_breakpoint request with a negative result
SetBreakpointFailed ==
  cur.cmd = "SetBreakpoint" /\ ev'.k = "cmd" /\ ev'.id = cur.id
    /\ ev'.result < 0

\* C19: a set_breakpoint that returns a negative result leaves target
\* memory and the debug registers of every thread as they were and takes no
\* hardware or software breakpoint slot
C19_FailedSetLeavesTarget ==
  [][SetBreakpointFailed =>
       /\ mem' = mem
       /\ hw' = hw
       /\ breakpoint_used' = breakpoint_used
       /\ software_breakpoint_used' = software_breakpoint_used]_vars

\* a hardware or software breakpoint is recorded at address a
BreakpointRecorded(a) ==
  \/ \E i \in BpSlots : breakpoint_used[i] /\ breakpoint_addresses[i] = a
  \/ SwRecorded(a)

\* a watchpoint is recorded at address a
WatchpointRecorded(a) ==
  \E i \in WpSlots : watchpoint_used[i] /\ watchpoint_addresses[i] = a

\* the step completes a remove request for an address with no record
RemoveOfNothing ==
  /\ ev'.k = "cmd" /\ ev'.id = cur.id
  /\ \/ cur.cmd = "RemoveBreakpoint" /\ ~BreakpointRecorded(cur.address)
     \/ cur.cmd = "RemoveWatchpoint" /\ ~WatchpointRecorded(cur.address)

\* C20: remove_breakpoint or remove_watchpoint for an address at which
\* nothing is recorded returns a negative result and changes nothing: the
\* tables, the thread states, target memory, the debug registers and every
\* thread's stopped or running status stay as they were
C20_RemoveOfNothing ==
  [][RemoveOfNothing => (ev'.result < 0 /\ UNCHANGED <<kvars, evars>>)]_vars

\* on x86_64 a remove_breakpoint for the address one past a recorded
\* software breakpoint has failed and the breakpoint is still in place
C20_Witness ==
  /\ arch = "x86_64"
  /\ ev.k = "cmd" /\ ev.cmd = "RemoveBreakpoint" /\ ev.result < 0
  /\ ~BreakpointRecorded(ev.arg)
  /\ SwRecorded(ev.arg - 1)
  /\ mem[ev.arg - 1] = TrapInsn
\* C21: every request completed by the debugger thread carries result 0 or a
\* negative result: no request reports a positive result.
C21_ResultZeroOrNegative == ev.k = "cmd" => ev.result <= 0

\* the step completes a set_watchpoint request
SetWatchpointDone ==
  /\ cur.cmd = "SetWatchpoint"
  /\ ev'.k = "cmd" /\ ev'.id = cur.id

WatchpointsInUse == Cardinality({i \in WpSlots : watchpoint_used[i]})

\* stop_all_threads would return at least one thread
ThreadsCanBeStopped == StopAllThreads(World, 0).stopped # {}

\* the request took the lowest-indexed free slot for its address
TookLowestFree ==
  \E i \in WpSlots :
    /\ ~watchpoint_used[i]
    /\ \A j \in WpSlots : j < i => watchpoint_used[j]
    /\ watchpoint_used'[i]
    /\ watchpoint_addresses'[i] = cur.address

C23_OddSizeAsFour ==
  [][SetWatchpointDone /\ cur.size \notin {1, 2, 4, 8} /\ ev'.result = 0 =>
       LET four == set_watchpoint_internal(World, cur.address, 4, cur.type).w
       IN /\ hw' = four.hw
          /\ watchpoint_sizes' = four.watchpoint_sizes]_vars

\* C26: every step that issues kernel debug primitives, the detach of the
\* attached threads at destruction included, is a step of the debugger
\* thread.
C26_PtraceByDebuggerThread ==
  ev.k \in {"cmd", "exc", "detach"} => ev.by = "debugger"

\* thread t's debug registers hold the address and the enable encoding of
\* hardware breakpoint slot i
HoldsBreakpoint(t, i) == i \in ExecSlots(hw[t], breakpoint_addresses[i])

\* thread t's debug registers hold the address and the enable encoding of
\* watchpoint slot i
HoldsWatchpoint(t, i) ==
  IF arch = "arm64"
  THEN hw[t].wvr[i] = watchpoint_addresses[i] /\ CtrlEnabled(hw[t].wcr[i])
  ELSE /\ hw[t].dr[i] = watchpoint_addresses[i]
       /\ hw[t].dr7l[i]
       /\ hw[t].dr7rw[i] # X86_DR7_BREAK_ON_EXEC

\* thread t is in the middle of stepping over breakpoint slot i
SteppingOverBreakpoint(t, i) ==
  /\ TsAt(thread_states_, t).single_step_mode # "None"
  /\ TsAt(thread_states_, t).current_breakpoint_index = i

\* thread t is in the middle of stepping over watchpoint slot i
SteppingOverWatchpoint(t, i) ==
  /\ TsAt(thread_states_, t).single_step_mode # "None"
  /\ TsAt(thread_states_, t).disabled_watchpoint_index = i

\* C27: between the handlers of the debugger thread, every attached thread
\* holds in its debug registers every hardware breakpoint and every
\* watchpoint that is in use and not being removed, except a slot the thread
\* itself is stepping over.
C27_RegistersFollowTables ==
  \A t \in attached_threads_ :
    /\ \A i \in BpSlots :
         (breakpoint_used[i] /\ ~SteppingOverBreakpoint(t, i))
           => HoldsBreakpoint(t, i)
    /\ \A i \in WpSlots :
         (watchpoint_used[i] /\ i \notin removing_mask_
            /\ ~SteppingOverWatchpoint(t, i))
           => HoldsWatchpoint(t, i)

\* some thread is in the middle of stepping over software breakpoint i
SteppingOverSoftware(i) ==
  \E t \in DOMAIN thread_states_ :
    /\ thread_states_[t].single_step_mode # "None"
    /\ thread_states_[t].disabled_watchpoint_index = i + SW_INDEX_BASE

\* C28: for every software breakpoint in use that no thread is stepping
\* over, target memory at its address holds the trap instruction and the
\* saved original bytes are the instruction that was there before any
\* breakpoint was installed.
C28_SoftwareInstalled ==
  \A i \in SwIdx :
    (software_breakpoint_used[i] /\ ~SteppingOverSoftware(i))
      => /\ mem[software_breakpoint_addresses[i]] = TrapInsn
         /\ software_breakpoint_original_bytes[i] =
              OrigInsn(software_breakpoint_addresses[i])

\* thread t was restarted with PTRACE_SINGLESTEP and is executing the step,
\* or has completed it and its stop is waiting to be handled
ExecutingStep(t) == sstep[t] /\ kst[t] \in {"running", "trapped"}

\* C29: between the handlers of the debugger thread, a thread whose
\* single_step_mode is not None is executing a single step the engine
\* issued; a thread stopped for the client, or restarted by a plain
\* continue, has mode None.
C29_ModeOnlyWhileStepping ==
  \A t \in DOMAIN thread_states_ :
    thread_states_[t].single_step_mode # "None" => ExecutingStep(t)

\* the step completes a set or remove request that went as far as calling
\* stop_all_threads(0, &already_stopped)
StopAllCalled ==
  /\ ev'.k = "cmd" /\ ev'.id = cur.id
  /\ \/ cur.cmd = "SetWatchpoint" /\ find_free_watchpoint(World) # -1
     \/ /\ cur.cmd = "RemoveWatchpoint"
        /\ find_watchpoint_index(World, cur.address) # -1
     \/ /\ cur.cmd = "SetBreakpoint"
        /\ IF cur.sw THEN FreeSoftwareIndex(World) # -1
           ELSE find_free_breakpoint(World) # -1

\* C30: every thread stop_all_threads returns is in a ptrace-stop when the
\* call returns, and was either marked stopped before the call or had its
\* stop read by the waitpid loop: a thread whose stop was not confirmed
\* before the deadline is not in the returned vector.
C30_ReturnedThreadsStopped ==
  [][StopAllCalled =>
       LET w0 == TouchCandidates(PruneGone(World), 0)
           sa == StopAllThreads([World EXCEPT !.late = ev'.late], 0)
       IN /\ \A t \in sa.stopped : InStop(sa.w, t)
          /\ sa.stopped \subseteq
               AlreadyStopped(w0, 0) \cup Confirmed(w0, ToInterrupt(w0, 0))]_vars

\* C24: while a debugger instance exists and no signal-config call is in
\* progress, the debugger's signal-disposition map equals the global map.
DebuggerExists == destroyed = "no" /\ (SpawnMode => threads_attached_)

C24_MapsEqual ==
  (DebuggerExists /\ cfg_calls = {}) => signal_config_ = g_signal_config

\* the step completes a spawn request with result 0
SpawnReturnsSuccess ==
  /\ cur.cmd = "SpawnProcess"
  /\ ev'.k = "cmd" /\ ev'.id = cur.id
  /\ ev'.result = 0

\* C25: when spawn returns success the child is traced, in a ptrace-stop and
\* marked is_stopped, is registered as attached, is still at the entry point
\* of its image, the debug state is Paused, and the step has made one
\* breakpoint-type on_exception call for the child.
C25_SpawnedStopped ==
  [][SpawnReturnsSuccess =>
       /\ pid_ \in traced'
       /\ kst'[pid_] = "stopped"
       /\ pid_ \in attached_threads_'
       /\ pid_ \in DOMAIN thread_states_'
       /\ thread_states_'[pid_].is_attached
       /\ thread_states_'[pid_].is_stopped
       /\ pc'[pid_] = cur.address
       /\ debug_state_' = "Paused"
       /\ ev'.type = "breakpoint" /\ ev'.tid = pid_]_vars

\* a spawn has just returned success
C25_Witness ==
  /\ ev.k = "cmd" /\ ev.cmd = "SpawnProcess" /\ ev.result = 0
  /\ threads_attached_
  /\ kst[pid_] = "stopped"

\* the step completes a set or remove that stops the threads and then writes
\* debug registers or code bytes
MutationDone ==
  /\ ev'.k = "cmd" /\ ev'.id = cur.id
  /\ \/ StopAllCalled
     \/ /\ cur.cmd = "RemoveBreakpoint"
        /\ find_breakpoint_index(World, cur.address) # -1
        /\ \/ find_breakpoint_index(World, cur.address) < SW_INDEX_BASE
           \/ FindSoftwareIndex(World, cur.address) # -1

\* the state in which the set or remove of this step writes: the one
\* stop_all_threads left, when it returned any thread
MutationWrites(sa) == sa.stopped # {}

StepOverBegins(t, s) ==
  /\ cur.cmd = "SingleStep" /\ cur.thread_id = t
  /\ ev'.k = "cmd" /\ ev'.id = cur.id /\ ev'.result = 0
  /\ TsAt(thread_states_, t).current_breakpoint_index = s
  /\ breakpoint_used[s] /\ breakpoint_target_counts[s] = 0

\* the step handles the completion of that single step
StepOverEnds(t, s) ==
  /\ bp_pre[t].valid /\ bp_pre[t].slot = s
  /\ breakpoint_used[s] /\ breakpoint_target_counts[s] = 0
  /\ ev'.k = "exc" /\ ev'.tid = t /\ ev'.type = "singlestep"

\* C32: stepping thread t over a wait-mode hardware breakpoint changes no
\* other thread's debug registers, neither when the slot is disabled nor when
\* it is re-enabled, and after the step has completed the address and control
\* registers of t are what they were before the step began.
C32_StepOverFrame ==
  [][\A t \in Tids, s \in BpSlots :
       /\ StepOverBegins(t, s) => \A u \in Tids \ {t} : hw'[u] = hw[u]
       /\ StepOverEnds(t, s) =>
            /\ \A u \in Tids \ {t} : hw'[u] = hw[u]
            /\ AddrCtrl(hw'[t]) = AddrCtrl(bp_pre[t].hw)]_vars

\* the step handles a watchpoint hit of thread t and starts the single step
\* over the access
WatchpointStepBegins(t) ==
  ev'.k = "exc" /\ ev'.tid = t /\ ev'.type = "watchpoint" /\ ev'.act = "wp_step"

\* the step handles the completion of that single step
WatchpointStepEnds(t) ==
  ev'.k = "exc" /\ ev'.tid = t /\ ev'.act = "wp_done"

\* the step executes the ReapplyWatchpoints request queued for thread t
ReapplyRuns(t) ==
  /\ cur.cmd = "ReapplyWatchpoints" /\ cur.thread_id = t
  /\ ev'.k = "cmd" /\ ev'.cmd = "ReapplyWatchpoints" /\ ev'.tid = t

\* thread t holds every watchpoint that is in use and not being removed
WatchpointsArmed(t) ==
  \A i \in WpSlots :
    (watchpoint_used[i] /\ i \notin removing_mask_) => HoldsWatchpoint(t, i)

\* C33: after thread t hits a watchpoint the engine, without a client
\* request, single-steps t, queues a ReapplyWatchpoints for t when the step
\* completes, and the execution of that request leaves every in-use
\* watchpoint armed on t and on every thread attached by then, with t running
\* again. Each step of the chain is a step of the debugger thread alone.
C33_WatchpointRearmed ==
  [][\A t \in Tids :
       /\ WatchpointStepBegins(t) => sstep'[t] /\ kst'[t] = "running"
       /\ WatchpointStepEnds(t) =>
            \E k \in DOMAIN debug_command_queue_' :
              /\ debug_command_queue_'[k].cmd = "ReapplyWatchpoints"
              /\ debug_command_queue_'[k].thread_id = t
       /\ ReapplyRuns(t) =>
            /\ t \in attached_threads_' => kst'[t] = "running"
            /\ \A u \in attached_threads_' : WatchpointsArmed(u)']_vars

\* a ReapplyWatchpoints queued for a thread has run with two threads attached
\* and a watchpoint in use
C33_Witness ==
  /\ ev.k = "cmd" /\ ev.cmd = "ReapplyWatchpoints" /\ ev.tid # 0
  /\ ev.result = 0
  /\ Cardinality(attached_threads_) = 2
  /\ \E i \in WpSlots : watchpoint_used[i]
  /\ \A u \in attached_threads_ : WatchpointsArmed(u)

\* thread t is in a breakpoint, watchpoint or single-step stop that no
\* waitpid has read yet
DebugStopPending(t) ==
  kst[t] = "trapped" /\ kev[t].k \in {"bp", "swbp", "wp", "step"}

\* the step executes a request that calls stop_all_threads
StopsTheWorld ==
  \/ MutationDone
  \/ ev'.k = "cmd" /\ cur.cmd = "ReapplyWatchpoints"

\* the threads that call of stop_all_threads sends PTRACE_INTERRUPT to
Interrupted ==
  ToInterrupt(PruneGone(World),
              IF cur.cmd = "ReapplyWatchpoints" THEN cur.thread_id ELSE 0)

\* C34: a breakpoint, watchpoint or single-step stop that is pending on a
\* thread while stop_all_threads interrupts and waits for it is not read as
\* the acknowledgement of the interrupt: it is still pending when the
\* request is done, for wait_for_debug_event to dispatch.
C34_StopNotLost ==
  [][StopsTheWorld =>
       \A t \in Interrupted :
         DebugStopPending(t) => kst'[t] = "trapped" /\ kev'[t] = kev[t]]_vars

\* a ReapplyWatchpoints request for thread t is queued or being executed
ReapplyNames(t) ==
  \/ cur.cmd = "ReapplyWatchpoints" /\ cur.thread_id = t
  \/ \E k \in DOMAIN debug_command_queue_ :
       /\ debug_command_queue_[k].cmd = "ReapplyWatchpoints"
       /\ debug_command_queue_[k].thread_id = t

\* C35: between the handlers of the debugger thread, every traced thread
\* whose stop the engine has read and that it has not restarted is marked
\* is_stopped or is named by a ReapplyWatchpoints request; no thread is left
\* stopped in the kernel while the engine records it as running.
C35_StoppedIsRecorded ==
  destroyed = "no" =>
    \A t \in traced :
      kst[t] = "stopped" =>
        \/ TsHas(thread_states_, t) /\ TsAt(thread_states_, t).is_stopped
        \/ ReapplyNames(t)

\* thread t was restarted with a single step over software breakpoint i and
\* is about to execute the instruction at the breakpoint's address
SteppingAtSoftware(t, i) ==
  /\ TsHas(thread_states_, t)
  /\ TsAt(thread_states_, t).single_step_mode
       \in {"Breakpoint", "SoftwareBreakpointContinue"}
  /\ TsAt(thread_states_, t).disabled_watchpoint_index = i + SW_INDEX_BASE
  /\ software_breakpoint_used[i]
  /\ pc[t] = software_breakpoint_addresses[i]
  /\ kst[t] = "running" /\ sstep[t] /\ ~intr[t] /\ sigq = {}

\* thread t executes a trap instruction in this step
ExecutesTrap(t) == kst'[t] = "trapped" /\ kev'[t].k = "swbp"

\* C36: a thread the engine steps over a software breakpoint executes the
\* original instruction at the breakpoint's address, never the trap
\* instruction, whatever the other threads and their step completions do
\* in between.
C36_StepsOriginalInstruction ==
  [][\A t \in Tids, i \in SwIdx :
       SteppingAtSoftware(t, i) => ~ExecutesTrap(t)]_vars

\* the step handles the completion of a single step of thread t
StepCompletes(t) == ev'.k = "exc" /\ ev'.tid = t /\ ev'.type = "singlestep"

\* C37: once a hardware breakpoint slot is free, whether remove_breakpoint
\* or the completion of a trace freed it, the completion of a single step
\* neither enables the slot in the stepping thread's debug registers nor
\* changes the slot's hit counter.
C37_FreedSlotStaysFree ==
  [][\A t \in Tids, s \in BpSlots :
       (StepCompletes(t) /\ ~breakpoint_used[s]) =>
         /\ breakpoint_hit_counts'[s] = breakpoint_hit_counts[s]
         /\ Armed(hw'[t], s) => Armed(hw[t], s)]_vars

\* the step completes a request of one of the kinds named
Completes(cmds) == ev'.k = "cmd" /\ ev'.id = cur.id /\ cur.cmd \in cmds

\* C38: on x86_64, where breakpoint slot i and watchpoint slot i are both
\* kept in DRi and in the slot-i fields of DR7, a set or remove of a
\* watchpoint leaves every in-use hardware breakpoint a thread holds in
\* place, and a set or remove of a hardware breakpoint leaves every in-use
\* watchpoint a thread holds in place.
C38_SharedRegistersKept ==
  [][arch = "x86_64" =>
       \A t \in attached_threads_ \cap attached_threads_' :
         /\ Completes({"SetWatchpoint", "RemoveWatchpoint"}) =>
              \A i \in BpSlots :
                (breakpoint_used[i] /\ HoldsBreakpoint(t, i))
                  => HoldsBreakpoint(t, i)'
         /\ Completes({"SetBreakpoint", "RemoveBreakpoint"}) =>
              \A i \in WpSlots :
                (watchpoint_used[i] /\ HoldsWatchpoint(t, i))
                  => HoldsWatchpoint(t, i)']_vars

\* one thread's registers have watchpoint slot i armed
WatchArmed(h, i) == IF arch = "arm64" THEN CtrlEnabled(h.wcr[i]) ELSE h.dr7l[i]

\* C39: once the debugger is destroyed, no trap instruction is left in the
\* target's code, no thread of the target has a hardware breakpoint or a
\* watchpoint armed in its debug registers, and no thread is left in a
\* ptrace-stop.
C39_TargetLeftClean ==
  destroyed = "done" =>
    /\ \A a \in CodeAddrs : mem[a] # TrapInsn
    /\ \A t \in Tids :
         t \in ThreadList(World) =>
           /\ kst[t] = "running"
           /\ \A i \in BpSlots : ~Armed(hw[t], i)
           /\ \A i \in WpSlots : ~WatchArmed(hw[t], i)

\* the attached threads in watchpoint-restore single-step mode for slot i
RestoringThreads(i) ==
  {t \in attached_threads_ :
     /\ TsHas(thread_states_, t)
     /\ TsAt(thread_states_, t).single_step_mode = "Watchpoint"
     /\ TsAt(thread_states_, t).disabled_watchpoint_index = i}

\* C40: between the handlers of the debugger thread, active_handlers[i] is
\* not negative and is the number of attached threads in watchpoint-restore
\* single-step mode for slot i.
C40_HandlersCountSteppers ==
  \A i \in WpSlots :
    /\ active_handlers[i] >= 0
    /\ active_handlers[i] = Cardinality(RestoringThreads(i))

\* a thread is stepping over its watchpoint hit and is counted
C40_Witness ==
  \E i \in WpSlots :
    /\ active_handlers[i] = 1
    /\ \E t \in RestoringThreads(i) : kst[t] = "running" /\ sstep[t]

====
